---------------------------- MODULE Spec2Model ----------------------------
(***************************************************************************)
(* Model of the i18n tooling of 66HEX/frame:                               *)
(*   scripts/i18n-common.mjs     flattenMessages, syncLocaleTree, ...      *)
(*   scripts/i18n-translate.mjs  requestDeepLTranslation, main             *)
(*                                                                         *)
(* Texts are sequences of one-character strings, so that the placeholder   *)
(* codec works on characters as the JavaScript does.  A JSON value is a    *)
(* record [kind, text] (a leaf) or [kind |-> "object", kids] where kids is *)
(* a function from key segments to values.  Key segments are non-empty and *)
(* contain no '.', so a dotted path is a sequence of segments.  Object     *)
(* keys are iterated in code-unit order (JSON insertion order is not       *)
(* modelled).                                                              *)
(***************************************************************************)
EXTENDS Integers, Sequences, FiniteSets, TLC

(***************************************************************************)
(* Characters and texts                                                    *)
(***************************************************************************)
LowerLetters == <<"a","b","c","d","e","f","g","h","i","j","k","l","m",
                  "n","o","p","q","r","s","t","u","v","w","x","y","z">>
UpperLetters == <<"A","B","C","D","E","F","G","H","I","J","K","L","M",
                  "N","O","P","Q","R","S","T","U","V","W","X","Y","Z">>
Digits == {"0","1","2","3","4","5","6","7","8","9"}

Range(s) == {s[i] : i \in 1..Len(s)}

\* [a-zA-Z0-9_]
NameChars == Range(LowerLetters) \cup Range(UpperLetters) \cup Digits \cup {"_"}

\* \s, as far as the modelled texts hold whitespace
WhiteSpace == {" ", "\t", "\n"}

\* s.startsWith(p) at offset i (1-based)
IsPrefixAt(s, i, p) ==
    /\ i + Len(p) - 1 <= Len(s)
    /\ \A j \in 1..Len(p) : s[i + j - 1] = p[j]

startsWith(s, p) == IsPrefixAt(s, 1, p)

\* First index >= i whose character is not in class (Len(s)+1 if none).
RECURSIVE RunEnd(_, _, _)
RunEnd(s, i, class) ==
    IF i > Len(s) \/ s[i] \notin class THEN i ELSE RunEnd(s, i + 1, class)

\* First index >= i whose character is c (Len(s)+1 if none).
RECURSIVE IndexOf(_, _, _)
IndexOf(s, i, c) ==
    IF i > Len(s) \/ s[i] = c THEN i ELSE IndexOf(s, i + 1, c)

Slice(s, from, to) == IF to < from THEN <<>> ELSE SubSeq(s, from, to)

\* String.prototype.replaceAll(pat, rep) with a string pattern.
RECURSIVE replaceAllFrom(_, _, _, _)
replaceAllFrom(s, i, pat, rep) ==
    IF i > Len(s) THEN <<>>
    ELSE IF IsPrefixAt(s, i, pat)
         THEN rep \o replaceAllFrom(s, i + Len(pat), pat, rep)
         ELSE <<s[i]>> \o replaceAllFrom(s, i + 1, pat, rep)

replaceAll(s, pat, rep) == replaceAllFrom(s, 1, pat, rep)

\* value.trim() is empty
IsBlank(s) == \A i \in 1..Len(s) : s[i] \in WhiteSpace

AMP  == <<"&","a","m","p",";">>
LT   == <<"&","l","t",";">>
GT   == <<"&","g","t",";">>
QUOT == <<"&","q","u","o","t",";">>
APOS == <<"&","a","p","o","s",";">>

TagOpen    == <<"<","p","h"," ","i","d","=","\"">>
TagClose   == <<"\"","/",">">>
TokenOpen  == <<"_","_","D","E","E","P","L","_","P","H","_">>
TokenClose == <<"_","_">>

(***************************************************************************)
(* Regular expressions of the codec.  Match(re, s, i) is the match of re   *)
(* anchored at index i: ok, the captured group, and the index after it.    *)
(***************************************************************************)
NoMatch == [ok |-> FALSE, name |-> <<>>, next |-> 0]

\* /{([a-zA-Z0-9_]+)}/
MatchBrace(s, i) ==
    IF s[i] # "{" THEN NoMatch
    ELSE LET e == RunEnd(s, i + 1, NameChars)
         IN  IF e > i + 1 /\ e <= Len(s) /\ s[e] = "}"
             THEN [ok |-> TRUE, name |-> Slice(s, i + 1, e - 1), next |-> e + 1]
             ELSE NoMatch

\* /<ph\s+id="([^"]+)"\s*\/>/
MatchTag(s, i) ==
    IF ~IsPrefixAt(s, i, <<"<","p","h">>) THEN NoMatch
    ELSE LET w == RunEnd(s, i + 3, WhiteSpace)
         IN  IF w = i + 3 \/ ~IsPrefixAt(s, w, <<"i","d","=","\"">>) THEN NoMatch
             ELSE LET q == IndexOf(s, w + 4, "\"")
                      c == RunEnd(s, q + 1, WhiteSpace)
                  IN  IF q > w + 4 /\ q <= Len(s) /\ IsPrefixAt(s, c, <<"/",">">>)
                      THEN [ok |-> TRUE, name |-> Slice(s, w + 4, q - 1), next |-> c + 2]
                      ELSE NoMatch

\* /&lt;ph\s+id=&quot;([^&]+)&quot;\s*\/&gt;/
MatchEscapedTag(s, i) ==
    IF ~IsPrefixAt(s, i, LT \o <<"p","h">>) THEN NoMatch
    ELSE LET w == RunEnd(s, i + 6, WhiteSpace)
         IN  IF w = i + 6 \/ ~IsPrefixAt(s, w, <<"i","d","=">> \o QUOT) THEN NoMatch
             ELSE LET q == IndexOf(s, w + 9, "&")
                      c == RunEnd(s, q + 6, WhiteSpace)
                  IN  IF /\ q > w + 9
                         /\ IsPrefixAt(s, q, QUOT)
                         /\ IsPrefixAt(s, c, <<"/">> \o GT)
                      THEN [ok |-> TRUE, name |-> Slice(s, w + 9, q - 1), next |-> c + 5]
                      ELSE NoMatch

\* /__DEEPL_PH_([A-Za-z0-9_]+)__/ : the group is greedy over a class that
\* holds '_', so it ends at the last "__" inside the run of name characters.
MatchToken(s, i) ==
    IF ~IsPrefixAt(s, i, TokenOpen) THEN NoMatch
    ELSE LET b == i + Len(TokenOpen)
             e == RunEnd(s, b, NameChars)
             ends == {m \in (b + 1)..(e - 2) : s[m] = "_" /\ s[m + 1] = "_"}
         IN  IF ends = {} THEN NoMatch
             ELSE LET m == CHOOSE x \in ends : \A y \in ends : y <= x
                  IN  [ok |-> TRUE, name |-> Slice(s, b, m - 1), next |-> m + 2]

Match(re, s, i) ==
    CASE re = "brace"      -> MatchBrace(s, i)
      [] re = "tag"        -> MatchTag(s, i)
      [] re = "escapedTag" -> MatchEscapedTag(s, i)
      [] re = "token"      -> MatchToken(s, i)

\* s.replace(/re/g, pre + "$1" + post)
RECURSIVE regexReplaceFrom(_, _, _, _, _)
regexReplaceFrom(re, s, i, pre, post) ==
    IF i > Len(s) THEN <<>>
    ELSE LET m == Match(re, s, i)
         IN  IF m.ok
             THEN pre \o m.name \o post \o regexReplaceFrom(re, s, m.next, pre, post)
             ELSE <<s[i]>> \o regexReplaceFrom(re, s, i + 1, pre, post)

regexReplace(re, s, pre, post) == regexReplaceFrom(re, s, 1, pre, post)

(***************************************************************************)
(* PlaceholderCodec (i18n-translate.mjs)                                   *)
(***************************************************************************)
escapeXml(value) ==
    replaceAll(replaceAll(replaceAll(replaceAll(replaceAll(value,
        <<"&">>, AMP), <<"<">>, LT), <<">">>, GT), <<"\"">>, QUOT), <<"'">>, APOS)

unescapeXml(value) ==
    replaceAll(replaceAll(replaceAll(replaceAll(replaceAll(value,
        LT, <<"<">>), GT, <<">">>), QUOT, <<"\"">>), APOS, <<"'">>), AMP, <<"&">>)

encodePlaceholders(value) ==
    regexReplace("brace", escapeXml(value), TagOpen, TagClose)

encodePlaceholdersFallback(value) ==
    regexReplace("brace", value, TokenOpen, TokenClose)

decodePlaceholders(value) ==
    LET withPlaceholders ==
            regexReplace("token",
                regexReplace("escapedTag",
                    regexReplace("tag", value, <<"{">>, <<"}">>),
                    <<"{">>, <<"}">>),
                <<"{">>, <<"}">>)
    IN  unescapeXml(withPlaceholders)

(***************************************************************************)
(* JSON values and locale trees                                            *)
(***************************************************************************)
\* Key names in code-unit order ('_' sorts before the lower-case letters and
\* '.' before them too).  "a.b" is a key name that holds the separator.
SegOrder == <<"_meta", "a", "a.b", "b", "constructor">>
Segs == Range(SegOrder)

\* key.split('.') : the parts a key name contributes to a dotted path.
KeyParts(key) == IF key = "a.b" THEN <<"a", "b">> ELSE <<key>>
SegRank(k) == CHOOSE i \in 1..Len(SegOrder) : SegOrder[i] = k

Undefined == [kind |-> "undefined"]
StringValue(t) == [kind |-> "string", text |-> t]
NumberValue(t) == [kind |-> "number", text |-> t]
BooleanValue(t) == [kind |-> "boolean", text |-> t]
NullValue == [kind |-> "null", text |-> <<>>]
ObjectValue(f) == [kind |-> "object", kids |-> f]
EmptyObject == ObjectValue(<<>>)

\* typeof value === 'object' && value !== null && !Array.isArray(value)
isPlainObject(value) == value.kind = "object"

\* Object.prototype.hasOwnProperty.call(object, key) / key in object
hasOwnProperty(object, key) == key \in DOMAIN object.kids

\* object[key] = value
PutKey(object, key, value) ==
    ObjectValue([k \in DOMAIN object.kids \cup {key} |->
                    IF k = key THEN value ELSE object.kids[k]])

\* The keys of a set in iteration order.
RECURSIVE OrderedFrom(_, _)
OrderedFrom(keys, i) ==
    IF i > Len(SegOrder) THEN <<>>
    ELSE (IF SegOrder[i] \in keys THEN <<SegOrder[i]>> ELSE <<>>)
         \o OrderedFrom(keys, i + 1)

ObjectKeys(object) == OrderedFrom(DOMAIN object.kids, 1)

\* Number of nodes of a value.
RECURSIVE NodeCount(_)
NodeCount(value) ==
    IF ~isPlainObject(value) THEN 1
    ELSE LET RECURSIVE Sum(_)
             Sum(ks) == IF ks = {} THEN 0
                        ELSE LET k == CHOOSE x \in ks : TRUE
                             IN  NodeCount(value.kids[k]) + Sum(ks \ {k})
         IN  1 + Sum(DOMAIN value.kids)

(***************************************************************************)
(* flattenMessages (i18n-common.mjs): the result is a function from dotted *)
(* paths (sequences of segments) to leaf values.                           *)
(***************************************************************************)
EmptyFlat == [p \in {} |-> NullValue]

FlatPut(output, path, value) ==
    [p \in DOMAIN output \cup {path} |-> IF p = path THEN value ELSE output[p]]

RECURSIVE flattenMessages(_, _, _)
RECURSIVE flattenEntries(_, _, _, _)
\* flattenEntries, but a nested leaf is stored under its own key instead of
\* its full path.
RECURSIVE flattenEntriesOwnKey(_, _, _, _)
flattenEntriesOwnKey(keys, input, prefix, output) ==
    IF keys = <<>> THEN output
    ELSE LET key == Head(keys)
             value == input.kids[key]
             nextPrefix == prefix \o KeyParts(key)
         IN  flattenEntriesOwnKey(Tail(keys), input, prefix,
                 IF isPlainObject(value)
                 THEN flattenMessages(value, nextPrefix, output)
                 ELSE FlatPut(output, KeyParts(key), value))

\* for (const [key, value] of Object.entries(input)) { ... } with
\* nextPrefix = prefix ? `${prefix}.${key}` : key
flattenEntries(keys, input, prefix, output) ==
    IF keys = <<>> THEN output
    ELSE LET key == Head(keys)
             value == input.kids[key]
             nextPrefix == prefix \o KeyParts(key)
         IN  flattenEntries(Tail(keys), input, prefix,
                 IF isPlainObject(value)
                 THEN flattenMessages(value, nextPrefix, output)
                 ELSE FlatPut(output, nextPrefix, value))

flattenMessages(input, prefix, output) ==
    IF ~isPlainObject(input)
    THEN IF prefix # <<>> THEN FlatPut(output, prefix, input) ELSE output
    ELSE flattenEntries(ObjectKeys(input), input, prefix, output)

(***************************************************************************)
(* syncLocaleTree (i18n-common.mjs).  stats is threaded through the        *)
(* traversal; the result is [node, stats].                                 *)
(***************************************************************************)
EmptyStats == [added |-> <<>>, removed |-> <<>>]

TodoOpen == <<"[","T","O","D","O"," ">>

\* pathPrefix.startsWith('_meta.')
startsWithMeta(path) == Len(path) >= 2 /\ path[1] = "_meta"

\* TodoLeaf, but the source text is left out of the tagged value.
TodoLeafTagOnly(localeCode, baseNode) ==
    StringValue(TodoOpen \o localeCode \o <<"]", " ">>)

\* `[TODO ${localeCode}] ${baseNode}`
TodoLeaf(localeCode, baseNode) ==
    StringValue(TodoOpen \o localeCode \o <<"]", " ">> \o baseNode.text)

\* SyncLeaf, but an existing target value wins only if its type is base's.
SyncLeafSameTypeOnly(baseNode, localeNode, localeCode, pathPrefix) ==
    IF localeNode = Undefined \/ localeNode.kind # baseNode.kind
    THEN IF baseNode.kind = "string" /\ ~startsWithMeta(pathPrefix)
         THEN TodoLeaf(localeCode, baseNode)
         ELSE baseNode
    ELSE localeNode

\* SyncLeaf, but a missing textual leaf is tagged under '_meta.' as well.
SyncLeafTagMeta(baseNode, localeNode, localeCode, pathPrefix) ==
    IF localeNode = Undefined
    THEN IF baseNode.kind = "string"
         THEN TodoLeaf(localeCode, baseNode)
         ELSE baseNode
    ELSE localeNode

SyncLeaf(baseNode, localeNode, localeCode, pathPrefix) ==
    IF localeNode = Undefined
    THEN IF baseNode.kind = "string" /\ ~startsWithMeta(pathPrefix)
         THEN TodoLeaf(localeCode, baseNode)
         ELSE baseNode
    ELSE localeNode

\* SyncExtraKeys, but the extra keys are copied whatever keepExtra says.
RECURSIVE SyncExtraKeysKeepAll(_, _, _, _, _, _)
SyncExtraKeysKeepAll(keys, baseNode, localeObject, pathPrefix, acc, keepExtra) ==
    IF keys = <<>> THEN acc
    ELSE LET key == Head(keys)
             next == IF hasOwnProperty(baseNode, key) THEN acc
                     ELSE [acc EXCEPT !.node = PutKey(@, key, localeObject.kids[key])]
         IN  SyncExtraKeysKeepAll(Tail(keys), baseNode, localeObject, pathPrefix, next,
                                  keepExtra)

\* SyncExtraKeys, but a pruned key is not recorded in stats.removed.
RECURSIVE SyncExtraKeysNoRecord(_, _, _, _, _, _)
SyncExtraKeysNoRecord(keys, baseNode, localeObject, pathPrefix, acc, keepExtra) ==
    IF keys = <<>> THEN acc
    ELSE LET key == Head(keys)
             next == IF hasOwnProperty(baseNode, key) THEN acc
                     ELSE IF keepExtra
                          THEN [acc EXCEPT !.node = PutKey(@, key, localeObject.kids[key])]
                          ELSE acc
         IN  SyncExtraKeysNoRecord(Tail(keys), baseNode, localeObject, pathPrefix, next,
                                   keepExtra)

\* SyncExtraKeys, but only a pruned leaf is recorded in stats.removed, not a
\* pruned branch.
RECURSIVE SyncExtraKeysRecordLeaves(_, _, _, _, _, _)
SyncExtraKeysRecordLeaves(keys, baseNode, localeObject, pathPrefix, acc, keepExtra) ==
    IF keys = <<>> THEN acc
    ELSE LET key == Head(keys)
             nextPath == Append(pathPrefix, key)
             next == IF hasOwnProperty(baseNode, key) THEN acc
                     ELSE IF keepExtra
                          THEN [acc EXCEPT !.node = PutKey(@, key, localeObject.kids[key])]
                          ELSE IF isPlainObject(localeObject.kids[key]) THEN acc
                               ELSE [acc EXCEPT !.stats.removed = Append(@, nextPath)]
         IN  SyncExtraKeysRecordLeaves(Tail(keys), baseNode, localeObject, pathPrefix, next,
                                       keepExtra)

\* SyncExtraKeys, but a key that is kept is recorded in stats.removed too.
RECURSIVE SyncExtraKeysRecordKept(_, _, _, _, _, _)
SyncExtraKeysRecordKept(keys, baseNode, localeObject, pathPrefix, acc, keepExtra) ==
    IF keys = <<>> THEN acc
    ELSE LET key == Head(keys)
             nextPath == Append(pathPrefix, key)
             recorded == [acc EXCEPT !.stats.removed = Append(@, nextPath)]
             next == IF hasOwnProperty(baseNode, key) THEN acc
                     ELSE IF keepExtra
                          THEN [recorded EXCEPT !.node = PutKey(@, key, localeObject.kids[key])]
                          ELSE recorded
         IN  SyncExtraKeysRecordKept(Tail(keys), baseNode, localeObject, pathPrefix, next,
                                     keepExtra)

\* for (const key of Object.keys(localeObject)) { ... } : keys absent from base
RECURSIVE SyncExtraKeys(_, _, _, _, _, _)
SyncExtraKeys(keys, baseNode, localeObject, pathPrefix, acc, keepExtra) ==
    IF keys = <<>> THEN acc
    ELSE LET key == Head(keys)
             nextPath == Append(pathPrefix, key)
             next == IF hasOwnProperty(baseNode, key) THEN acc
                     ELSE IF keepExtra
                          THEN [acc EXCEPT !.node = PutKey(@, key, localeObject.kids[key])]
                          ELSE [acc EXCEPT !.stats.removed = Append(@, nextPath)]
         IN  SyncExtraKeys(Tail(keys), baseNode, localeObject, pathPrefix, next, keepExtra)

RECURSIVE syncLocaleTree(_, _, _, _, _, _)
RECURSIVE SyncBaseKeys(_, _, _, _, _, _, _)
\* SyncBaseKeys, but only a missing leaf is recorded in stats.added, not a
\* missing branch.
RECURSIVE SyncBaseKeysAddLeavesOnly(_, _, _, _, _, _, _)
SyncBaseKeysAddLeavesOnly(keys, baseNode, localeObject, localeCode, pathPrefix, acc, keepExtra) ==
    IF keys = <<>> THEN acc
    ELSE LET key == Head(keys)
             nextPath == Append(pathPrefix, key)
             child ==
                 IF hasOwnProperty(localeObject, key)
                 THEN syncLocaleTree(baseNode.kids[key], localeObject.kids[key],
                                     localeCode, nextPath, acc.stats, keepExtra)
                 ELSE syncLocaleTree(baseNode.kids[key], Undefined, localeCode, nextPath,
                                     IF isPlainObject(baseNode.kids[key]) THEN acc.stats
                                     ELSE [acc.stats EXCEPT !.added = Append(@, nextPath)],
                                     keepExtra)
         IN  SyncBaseKeysAddLeavesOnly(Tail(keys), baseNode, localeObject, localeCode,
                                       pathPrefix,
                                       [node |-> PutKey(acc.node, key, child.node),
                                        stats |-> child.stats],
                                       keepExtra)

\* for (const [key, childBase] of Object.entries(baseNode)) { ... }
SyncBaseKeys(keys, baseNode, localeObject, localeCode, pathPrefix, acc, keepExtra) ==
    IF keys = <<>> THEN acc
    ELSE LET key == Head(keys)
             nextPath == Append(pathPrefix, key)
             child ==
                 IF hasOwnProperty(localeObject, key)
                 THEN syncLocaleTree(baseNode.kids[key], localeObject.kids[key],
                                     localeCode, nextPath, acc.stats, keepExtra)
                 ELSE syncLocaleTree(baseNode.kids[key], Undefined, localeCode, nextPath,
                                     [acc.stats EXCEPT !.added = Append(@, nextPath)],
                                     keepExtra)
         IN  SyncBaseKeys(Tail(keys), baseNode, localeObject, localeCode, pathPrefix,
                          [node |-> PutKey(acc.node, key, child.node),
                           stats |-> child.stats],
                          keepExtra)

syncLocaleTree(baseNode, localeNode, localeCode, pathPrefix, stats, keepExtra) ==
    IF isPlainObject(baseNode)
    THEN LET localeObject == IF isPlainObject(localeNode) THEN localeNode ELSE EmptyObject
             afterBase == SyncBaseKeys(ObjectKeys(baseNode), baseNode, localeObject,
                                       localeCode, pathPrefix,
                                       [node |-> EmptyObject, stats |-> stats], keepExtra)
         IN  SyncExtraKeys(ObjectKeys(localeObject), baseNode, localeObject,
                           pathPrefix, afterBase, keepExtra)
    ELSE [node |-> SyncLeaf(baseNode, localeNode, localeCode, pathPrefix),
          stats |-> stats]

(***************************************************************************)
(* Helpers of i18n-translate.mjs                                           *)
(***************************************************************************)
DEFAULT_BATCH_SIZE == 40

maxRetries == 3

\* Bounds of the model
MaxBatchSize == 2
MaxNodes == 3
MaxPieces == 2
MaxFlatNodes == 4

\* The locale codes of the modelled locales directory, as texts.
CodeText(localeCode) ==
    CASE localeCode = "de-DE" -> <<"d","e","-","D","E">>
      [] localeCode = "en-US" -> <<"e","n","-","U","S">>
      [] localeCode = "fr-FR" -> <<"f","r","-","F","R">>
      [] localeCode = "pl-PL" -> <<"p","l","-","P","L">>

toUpperCase(s) ==
    [i \in 1..Len(s) |->
        IF \E j \in 1..Len(LowerLetters) : LowerLetters[j] = s[i]
        THEN UpperLetters[CHOOSE j \in 1..Len(LowerLetters) : LowerLetters[j] = s[i]]
        ELSE s[i]]

toLowerCase(s) ==
    [i \in 1..Len(s) |->
        IF \E j \in 1..Len(UpperLetters) : UpperLetters[j] = s[i]
        THEN LowerLetters[CHOOSE j \in 1..Len(UpperLetters) : UpperLetters[j] = s[i]]
        ELSE s[i]]

\* s.includes(p)
includes(s, p) == \E i \in 1..(Len(s) + 1) : IsPrefixAt(s, i, p)

\* The result null is the empty text.
mapLocaleToDeepLTarget(localeCode) ==
    LET code == CodeText(localeCode)
        primary == toUpperCase(Slice(code, 1, IndexOf(code, 1, "-") - 1))
    IN  IF primary \in {<<"D","E">>, <<"E","S">>, <<"F","R">>, <<"I","T">>,
                        <<"J","A">>, <<"K","O">>, <<"R","U">>, <<"Z","H">>}
        THEN primary
        ELSE <<>>

\* splitIntoChunks, but every chunk takes one value more than size.
RECURSIVE splitIntoChunksOneMore(_, _)
splitIntoChunksOneMore(values, size) ==
    IF values = <<>> THEN <<>>
    ELSE IF Len(values) <= size + 1 THEN <<values>>
         ELSE <<SubSeq(values, 1, size + 1)>>
              \o splitIntoChunksOneMore(SubSeq(values, size + 2, Len(values)), size)

RECURSIVE splitIntoChunks(_, _)
splitIntoChunks(values, size) ==
    IF values = <<>> THEN <<>>
    ELSE IF Len(values) <= size THEN <<values>>
         ELSE <<SubSeq(values, 1, size)>>
              \o splitIntoChunks(SubSeq(values, size + 1, Len(values)), size)

RECURSIVE getValueAtPath(_, _)
getValueAtPath(object, dottedPath) ==
    IF dottedPath = <<>> THEN object
    ELSE IF object.kind # "object" \/ ~hasOwnProperty(object, Head(dottedPath))
         THEN Undefined
         ELSE getValueAtPath(object.kids[Head(dottedPath)], Tail(dottedPath))

\* The object after setValueAtPath(object, dottedPath, value).
\* setValueAtPath, but every level on the way is a new empty mapping.
RECURSIVE setValueAtPathFresh(_, _, _)
setValueAtPathFresh(object, dottedPath, value) ==
    LET part == Head(dottedPath)
    IN  IF Len(dottedPath) = 1 THEN PutKey(object, part, value)
        ELSE PutKey(object, part, setValueAtPathFresh(EmptyObject, Tail(dottedPath), value))

RECURSIVE setValueAtPath(_, _, _)
setValueAtPath(object, dottedPath, value) ==
    LET part == Head(dottedPath)
    IN  IF Len(dottedPath) = 1 THEN PutKey(object, part, value)
        ELSE LET cursor == IF /\ hasOwnProperty(object, part)
                              /\ object.kids[part].kind = "object"
                           THEN object.kids[part]
                           ELSE EmptyObject
             IN  PutKey(object, part, setValueAtPath(cursor, Tail(dottedPath), value))

\* TODO_PREFIX.test(value) with TODO_PREFIX = /^\[TODO [^\]]+\]\s*/
TODO_PREFIX(value) ==
    /\ startsWith(value, TodoOpen)
    /\ LET close == IndexOf(value, Len(TodoOpen) + 1, "]")
       IN  close > Len(TodoOpen) + 1 /\ close <= Len(value)

\* Code-unit order of dotted paths: '.' sorts before every segment character
\* and no segment is a prefix of another.
RECURSIVE PathLess(_, _)
PathLess(p, q) ==
    IF p = <<>> THEN q # <<>>
    ELSE IF q = <<>> THEN FALSE
    ELSE IF Head(p) = Head(q) THEN PathLess(Tail(p), Tail(q))
    ELSE SegRank(Head(p)) < SegRank(Head(q))

\* Array.from(paths).sort()
RECURSIVE SortPaths(_)
SortPaths(paths) ==
    IF paths = {} THEN <<>>
    ELSE LET first == CHOOSE p \in paths : \A q \in paths \ {p} : PathLess(p, q)
         IN  <<first>> \o SortPaths(paths \ {first})

\* SelectKeys, but a value that carries the TODO prefix counts as translated.
RECURSIVE SelectKeysMissingOnly(_, _, _, _)
SelectKeysMissingOnly(keys, srcFlat, currentFlat, rewrite) ==
    IF keys = <<>> THEN <<>>
    ELSE LET key == Head(keys)
             rest == SelectKeysMissingOnly(Tail(keys), srcFlat, currentFlat, rewrite)
             needsTranslate == IF rewrite THEN TRUE ELSE key \notin DOMAIN currentFlat
         IN  IF startsWithMeta(key) THEN rest
             ELSE IF srcFlat[key].kind # "string" THEN rest
             ELSE IF needsTranslate THEN <<key>> \o rest
             ELSE rest

\* The keysToTranslate loop of main.
RECURSIVE SelectKeys(_, _, _, _)
SelectKeys(keys, srcFlat, currentFlat, rewrite) ==
    IF keys = <<>> THEN <<>>
    ELSE LET key == Head(keys)
             rest == SelectKeys(Tail(keys), srcFlat, currentFlat, rewrite)
             needsTranslate ==
                 IF rewrite THEN TRUE
                 ELSE \/ key \notin DOMAIN currentFlat
                      \/ /\ currentFlat[key].kind = "string"
                         /\ TODO_PREFIX(currentFlat[key].text)
         IN  IF startsWithMeta(key) THEN rest
             ELSE IF srcFlat[key].kind # "string" THEN rest
             ELSE IF needsTranslate THEN <<key>> \o rest
             ELSE rest

\* StoreTranslations, but the translations are read from the end.
RECURSIVE StoreTranslationsReversed(_, _, _, _)
StoreTranslationsReversed(locale, keyChunk, translated, index) ==
    IF index > Len(keyChunk) THEN locale
    ELSE LET text == translated[Len(keyChunk) + 1 - index]
         IN  StoreTranslationsReversed(
                 IF text = <<>> \/ IsBlank(text) THEN locale
                 ELSE setValueAtPath(locale, keyChunk[index], StringValue(text)),
                 keyChunk, translated, index + 1)

\* The loop of main that stores the translations of one chunk.
RECURSIVE StoreTranslations(_, _, _, _)
StoreTranslations(locale, keyChunk, translated, index) ==
    IF index > Len(keyChunk) THEN locale
    ELSE StoreTranslations(
             IF translated[index] = <<>> \/ IsBlank(translated[index])
             THEN locale
             ELSE setValueAtPath(locale, keyChunk[index], StringValue(translated[index])),
             keyChunk, translated, index + 1)

(***************************************************************************)
(* requestDeepLTranslation: request, response and the per-attempt policy   *)
(***************************************************************************)
\* The text fields of the request body.
EncodeTexts(texts, useTag) ==
    [i \in 1..Len(texts) |->
        IF useTag THEN encodePlaceholders(texts[i])
        ELSE encodePlaceholdersFallback(texts[i])]

BuildRequest(texts, useTag) ==
    [tagHandling |-> useTag, texts |-> EncodeTexts(texts, useTag)]

ParseFailedText ==
    <<"t","a","g"," ","h","a","n","d","l","i","n","g"," ",
      "p","a","r","s","i","n","g"," ","f","a","i","l","e","d">>

\* response.ok
ResponseOk(resp) == resp.status >= 200 /\ resp.status <= 299

parseError(resp) ==
    resp.status = 400 /\ includes(toLowerCase(resp.body), ParseFailedText)

canRetry(resp) == resp.status = 429 \/ resp.status >= 500

\* delayMs without the exponential growth.
delayMsConstant(attemptNo) == 400

delayMs(attemptNo) == 400 * 2 ^ (attemptNo - 1)

\* Disposition with the retry ceiling one attempt too low.
DispositionEarlyCeiling(resp, useTag, attemptNo, nTexts) ==
    IF ~ResponseOk(resp)
    THEN IF useTag /\ parseError(resp) THEN "downgrade"
         ELSE IF attemptNo < maxRetries - 1 /\ canRetry(resp) THEN "retry"
         ELSE "throw"
    ELSE IF ~resp.hasTranslations \/ Len(resp.translations) # nTexts THEN "throw"
         ELSE "return"

\* Disposition that retries a rate-limited request on the last attempt too.
DispositionNoCeiling(resp, useTag, attemptNo, nTexts) ==
    IF ~ResponseOk(resp)
    THEN IF useTag /\ parseError(resp) THEN "downgrade"
         ELSE IF attemptNo <= maxRetries /\ canRetry(resp) THEN "retry"
         ELSE "throw"
    ELSE IF ~resp.hasTranslations \/ Len(resp.translations) # nTexts THEN "throw"
         ELSE "return"

\* Disposition that retries every failed request, whatever its status.
DispositionRetryAll(resp, useTag, attemptNo, nTexts) ==
    IF ~ResponseOk(resp)
    THEN IF useTag /\ parseError(resp) THEN "downgrade"
         ELSE IF attemptNo < maxRetries THEN "retry"
         ELSE "throw"
    ELSE IF ~resp.hasTranslations \/ Len(resp.translations) # nTexts THEN "throw"
         ELSE "return"

\* What one pass of the attempt loop does with a response.
Disposition(resp, useTag, attemptNo, nTexts) ==
    IF ~ResponseOk(resp)
    THEN IF useTag /\ parseError(resp) THEN "downgrade"
         ELSE IF attemptNo < maxRetries /\ canRetry(resp) THEN "retry"
         ELSE "throw"
    ELSE IF ~resp.hasTranslations \/ Len(resp.translations) # nTexts THEN "throw"
         ELSE "return"

\* The attempt counter after a downgrade that forgets `attempt -= 1`.
AttemptAfterDowngradeCounted(attemptNo) == attemptNo + 1

\* The attempt counter after the downgrade's `attempt -= 1; continue`.
AttemptAfterDowngrade(attemptNo) == (attemptNo - 1) + 1

\* translations.map((entry) => decodePlaceholders(String(entry.text ?? '')))
DecodeTranslations(translations) ==
    [i \in 1..Len(translations) |-> decodePlaceholders(translations[i])]

(***************************************************************************)
(* The locales directory and the inputs of a run                           *)
(***************************************************************************)
\* Characters in code-unit order, the order Array.prototype.sort() uses.
CodeUnits == <<"-",".","0","1","2","3","4","5","6","7","8","9">> \o UpperLetters
             \o <<"_">> \o LowerLetters
CharRank(c) == CHOOSE i \in 1..Len(CodeUnits) : CodeUnits[i] = c

RECURSIVE NameLess(_, _)
NameLess(a, b) ==
    IF a = <<>> THEN b # <<>>
    ELSE IF b = <<>> THEN FALSE
    ELSE IF Head(a) = Head(b) THEN NameLess(Tail(a), Tail(b))
    ELSE CharRank(Head(a)) < CharRank(Head(b))

\* The entries fs.readdir finds in the locales directory.
DirEntries ==
    { [name |-> "fr-FR", ext |-> "json", isFile |-> TRUE],
      [name |-> "pl-PL", ext |-> "json", isFile |-> TRUE],
      [name |-> "README", ext |-> "md", isFile |-> TRUE],
      [name |-> "en-US", ext |-> "json", isFile |-> TRUE],
      [name |-> "old", ext |-> "json", isFile |-> FALSE],
      [name |-> "de-DE", ext |-> "json", isFile |-> TRUE] }

\* The text of a locale file's name.
FileName(localeCode) == CodeText(localeCode) \o <<".","j","s","o","n">>

\* names.sort(), but from the greatest name to the least.
RECURSIVE SortFilesDescending(_)
SortFilesDescending(names) ==
    IF names = {} THEN <<>>
    ELSE LET first == CHOOSE a \in names :
                          \A b \in names \ {a} : NameLess(FileName(b), FileName(a))
         IN  <<first>> \o SortFilesDescending(names \ {first})

\* names.sort()
RECURSIVE SortFiles(_)
SortFiles(names) ==
    IF names = {} THEN <<>>
    ELSE LET first == CHOOSE a \in names :
                          \A b \in names \ {a} : NameLess(FileName(a), FileName(b))
         IN  <<first>> \o SortFiles(names \ {first})

\* listLocaleFiles(): the names of the .json files, sorted.  A locale file
\* is named here by its locale code.
listLocaleFiles(entries) ==
    SortFiles({entry.name : entry \in {e \in entries : e.isFile /\ e.ext = "json"}})

localeFiles == listLocaleFiles(DirEntries)

\* DEFAULT_CONFIG.sourceLocale
sourceLocaleFile == "en-US"

targetLocaleFiles == SelectSeq(localeFiles, LAMBDA file : file # sourceLocaleFile)

HiN == <<"H","i"," ","{","n","}">>
AandB == <<"A","&","B">>

\* The source catalog en-US.json.
SourceCatalog ==
    ObjectValue(
        ("_meta" :> ObjectValue("a" :> StringValue(<<"E","n">>)))
     @@ ("a" :> StringValue(HiN))
     @@ ("b" :> ObjectValue(("a" :> StringValue(AandB))
                         @@ ("b" :> NumberValue(<<"3">>)))))

\* The catalogs a target locale file may hold when a run starts: empty,
\* freshly synchronized, partly translated, and one with a leaf where the
\* source has a branch and a branch where the source has a text.
LocaleCatalogs(localeCode) ==
    { EmptyObject,
      syncLocaleTree(SourceCatalog, EmptyObject, CodeText(localeCode),
                     <<>>, EmptyStats, FALSE).node,
      syncLocaleTree(SourceCatalog,
                     ObjectValue("a" :> StringValue(<<"O","k"," ","{","n","}">>)),
                     CodeText(localeCode), <<>>, EmptyStats, FALSE).node,
      ObjectValue(("a" :> ObjectValue("a" :> StringValue(<<"O","l","d">>)))
               @@ ("b" :> StringValue(<<"O","l","d">>))) }

\* Texts the translation service may return for one submitted text.
ResponseTexts ==
    { <<"X">>,
      <<"Y"," ">> \o TagOpen \o <<"n">> \o TagClose,
      <<" ">> }

ErrorBodies == { <<"T","a","g"," ","H","a","n","d","l","i","n","g"," ",
                   "p","a","r","s","i","n","g"," ","f","a","i","l","e","d",".">>,
                 <<"B","a","d">> }

NoRequest == [tagHandling |-> FALSE, texts |-> <<>>]
NoResponse == [status |-> 0, body |-> <<>>, hasTranslations |-> FALSE,
               translations |-> <<>>]

\* The answers of the service to a request of n texts: a well-formed
\* success, a success without translations array or with one text too many,
\* rate limiting, a server fault, a rejected request, a refused credential.
Responses(n) ==
    {[status |-> 200, body |-> <<>>, hasTranslations |-> TRUE, translations |-> t] :
        t \in [1..n -> ResponseTexts]}
    \cup {[status |-> 200, body |-> <<>>, hasTranslations |-> FALSE, translations |-> <<>>],
          [status |-> 200, body |-> <<>>, hasTranslations |-> TRUE,
           translations |-> [i \in 1..(n + 1) |-> <<"X">>]]}
    \cup {[status |-> st, body |-> <<"B","a","d">>, hasTranslations |-> FALSE,
           translations |-> <<>>] : st \in {429, 503, 403}}
    \cup {[status |-> 400, body |-> b, hasTranslations |-> FALSE, translations |-> <<>>] :
            b \in ErrorBodies}

\* Values of the tree generator of the synchronizer's inputs.
SyncSegs == {"_meta", "a"}
SyncLeaves == {StringValue(<<"{","n","}">>), NumberValue(<<"3">>),
               BooleanValue(<<"t","r","u","e">>), NullValue}

RECURSIVE TreesUpTo(_)
TreesUpTo(n) ==
    IF n <= 0 THEN {}
    ELSE LET smaller == TreesUpTo(n - 1)
             objects == {ObjectValue(f) :
                           f \in UNION {[S -> smaller] : S \in SUBSET SyncSegs}}
         IN  {t \in SyncLeaves \cup objects : NodeCount(t) <= n}

SyncTrees == TreesUpTo(MaxNodes)

(***************************************************************************)
(* State                                                                   *)
(***************************************************************************)
VARIABLES
    \* i18n-translate.mjs: disk, flags and main's variables
    files, writeMode, rewriteExisting, batchSize, authKey,
    pc, sourceLocale, localeIndex, currentLocale, updatedLocale,
    keysToTranslate, chunkIndex, translatedTexts, translatedLocaleCount,
    \* requestDeepLTranslation: parameters, locals, the message in flight
    texts, useTagHandling, attempt, request, response,
    \* history of the current call
    callRequests, callDelays, callRetryable, callParseFailures,
    lastHandled, attemptAtResponse,
    \* history of the run
    initialFiles, parseFailureSeen, reads, requested, writeLog, exchanges,
    \* syncLocaleTree applied to drawn inputs
    baseNode, localeNode, syncCode, keepExtra, syncPhase, synced, resynced,
    \* i18n-sync.mjs: main's counter (its disk, flag and loop variables are
    \* those of the same names above)
    changedLocaleCount,
    \* the placeholder codec applied to drawn texts
    codecText, codecPath, encoded, decoded, codecPhase,
    \* flattenMessages applied to drawn trees, and the tree rebuilt from it
    flatTree, flat, pending, rebuilt, flatPhase,
    \* i18n-check.mjs: the locale directory, the extractor's result, the
    \* guardrails config, and main's variables
    chkLocaleFiles, chkFiles, extracted, config,
    chkPc, chkIndex, usedKeySet, errors, warnings, exitCode,
    \* extractTemplateCallKeys: the parts of a template call's body, the
    \* known keys, and the collector
    templateParts, baseKeys, collector, extractPhase

mainVars == <<files, writeMode, rewriteExisting, batchSize, authKey,
              pc, sourceLocale, localeIndex, currentLocale, updatedLocale,
              keysToTranslate, chunkIndex, translatedTexts, translatedLocaleCount>>
callVars == <<texts, useTagHandling, attempt, request, response,
              callRequests, callDelays, callRetryable, callParseFailures,
              lastHandled, attemptAtResponse>>
runVars == <<initialFiles, parseFailureSeen, reads, requested, writeLog, exchanges>>
syncVars == <<baseNode, localeNode, syncCode, keepExtra, syncPhase, synced, resynced,
              changedLocaleCount>>
\* The variables of the other tools, which a translate run leaves alone.
codecVars == <<codecText, codecPath, encoded, decoded, codecPhase>>
flatVars == <<flatTree, flat, pending, rebuilt, flatPhase>>
checkVars == <<chkLocaleFiles, chkFiles, extracted, config,
               chkPc, chkIndex, usedKeySet, errors, warnings, exitCode>>
extractVars == <<templateParts, baseKeys, collector, extractPhase>>
toolVars == <<syncVars, codecVars, flatVars, checkVars, extractVars>>
translateVars == <<mainVars, callVars, runVars>>
\* What a run of one tool leaves alone.
exceptSync == <<translateVars, codecVars, flatVars, checkVars, extractVars>>
exceptCodec == <<translateVars, syncVars, flatVars, checkVars, extractVars>>
exceptFlat == <<translateVars, syncVars, codecVars, checkVars, extractVars>>
exceptCheck == <<translateVars, syncVars, codecVars, flatVars, extractVars>>
exceptExtract == <<translateVars, syncVars, codecVars, flatVars, checkVars>>
vars == <<mainVars, callVars, runVars, toolVars>>

sourceFlat == flattenMessages(sourceLocale, <<>>, EmptyFlat)
sourceKeys == SortPaths(DOMAIN sourceFlat)
keyChunks == splitIntoChunks(keysToTranslate, batchSize)
localeCode == targetLocaleFiles[localeIndex]

\* keyChunk.map((key) => String(sourceFlat[key]))
SourceTexts(keyChunk) == [i \in 1..Len(keyChunk) |-> sourceFlat[keyChunk[i]].text]

NoSync == [node |-> Undefined, stats |-> EmptyStats]

CallIdle ==
    /\ texts = <<>>
    /\ useTagHandling = TRUE
    /\ attempt = 0
    /\ request = NoRequest
    /\ response = NoResponse
    /\ callRequests = 0
    /\ callDelays = <<>>
    /\ callRetryable = 0
    /\ callParseFailures = 0
    /\ lastHandled = "none"
    /\ attemptAtResponse = 0

SyncIdle ==
    /\ baseNode = EmptyObject
    /\ localeNode = EmptyObject
    /\ syncCode = "fr-FR"
    /\ keepExtra = FALSE
    /\ syncPhase = "idle"
    /\ synced = NoSync
    /\ resynced = NoSync
    /\ changedLocaleCount = 0

CodecIdle ==
    /\ codecText = <<>>
    /\ codecPath = "tag"
    /\ encoded = <<>>
    /\ decoded = <<>>
    /\ codecPhase = "idle"

FlatIdle ==
    /\ flatTree = EmptyObject
    /\ flat = EmptyFlat
    /\ pending = {}
    /\ rebuilt = EmptyObject
    /\ flatPhase = "idle"

\* DEFAULT_CONFIG of i18n-common.mjs (sourceLocale is sourceLocaleFile's).
DEFAULT_CONFIG == [ignoredUnusedKeyPrefixes |-> << <<"_","m","e","t","a",".">> >>,
                   ignoredUnusedKeys |-> <<>>]

NoExtraction == [staticKeys |-> {}, templateResolvedKeys |-> {},
                 literalReferencedKeys |-> {}, variableExpressions |-> {}]

CheckIdle ==
    /\ chkLocaleFiles = <<>>
    /\ chkFiles = <<>>
    /\ extracted = NoExtraction
    /\ config = DEFAULT_CONFIG
    /\ chkPc = "idle"
    /\ chkIndex = 0
    /\ usedKeySet = {}
    /\ errors = <<>>
    /\ warnings = <<>>
    /\ exitCode = 0

\* The collector of extractKeysFromSource, as far as the template pass
\* fills it.
EmptyCollector == [staticKeys |-> {}, templatePatterns |-> {}, templateResolvedKeys |-> {}]

ExtractIdle ==
    /\ templateParts = <<>>
    /\ baseKeys = {}
    /\ collector = EmptyCollector
    /\ extractPhase = "idle"

\* The translate tool is not running: its variables rest while another tool
\* of the repository runs (pc names that tool).
TranslateIdle(tool) ==
    /\ files = [f \in Range(localeFiles) |-> EmptyObject]
    /\ initialFiles = files
    /\ writeMode = FALSE
    /\ rewriteExisting = FALSE
    /\ batchSize = DEFAULT_BATCH_SIZE
    /\ authKey = FALSE
    /\ pc = tool
    /\ sourceLocale = Undefined
    /\ localeIndex = 0
    /\ currentLocale = Undefined
    /\ updatedLocale = Undefined
    /\ keysToTranslate = <<>>
    /\ chunkIndex = 0
    /\ translatedTexts = <<>>
    /\ translatedLocaleCount = 0
    /\ CallIdle
    /\ parseFailureSeen = FALSE
    /\ reads = {}
    /\ requested = {}
    /\ writeLog = EmptyFlat
    /\ exchanges = <<>>

\* Only the named tool runs: the variables of the others rest.
ToolsIdle(tool) ==
    /\ TranslateIdle(tool)
    /\ IF tool = "sync" THEN TRUE ELSE SyncIdle
    /\ IF tool = "codec" THEN TRUE ELSE CodecIdle
    /\ IF tool = "flatten" THEN TRUE ELSE FlatIdle
    /\ IF tool = "check" THEN TRUE ELSE CheckIdle
    /\ IF tool = "extract" THEN TRUE ELSE ExtractIdle

\* The state when node scripts/i18n-translate.mjs starts.
Init ==
    /\ files \in {f \in [Range(localeFiles) -> LocaleCatalogs("de-DE")
                                              \cup LocaleCatalogs("fr-FR")
                                              \cup {SourceCatalog}] :
                    /\ f["en-US"] = SourceCatalog
                    /\ f["pl-PL"] = EmptyObject
                    /\ f["de-DE"] \in LocaleCatalogs("de-DE")
                    /\ f["fr-FR"] \in LocaleCatalogs("fr-FR")}
    /\ initialFiles = files
    /\ writeMode \in BOOLEAN
    /\ rewriteExisting \in BOOLEAN
    /\ batchSize \in (1..MaxBatchSize) \cup {DEFAULT_BATCH_SIZE}
    /\ authKey \in BOOLEAN
    /\ pc = "main"
    /\ sourceLocale = Undefined
    /\ localeIndex = 0
    /\ currentLocale = Undefined
    /\ updatedLocale = Undefined
    /\ keysToTranslate = <<>>
    /\ chunkIndex = 0
    /\ translatedTexts = <<>>
    /\ translatedLocaleCount = 0
    /\ CallIdle
    /\ parseFailureSeen = FALSE
    /\ reads = {}
    /\ requested = {}
    /\ writeLog = EmptyFlat
    /\ exchanges = <<>>
    /\ SyncIdle
    /\ CodecIdle
    /\ FlatIdle
    /\ CheckIdle
    /\ ExtractIdle

(***************************************************************************)
(* Actions of i18n-translate.mjs                                           *)
(***************************************************************************)
\* requestDeepLTranslation is entered with the texts of a chunk.
BeginCall(chunkTexts) ==
    /\ texts' = chunkTexts
    /\ useTagHandling' = TRUE
    /\ attempt' = 1
    /\ request' = NoRequest
    /\ response' = NoResponse
    /\ callRequests' = 0
    /\ callDelays' = <<>>
    /\ callRetryable' = 0
    /\ callParseFailures' = 0
    /\ lastHandled' = "none"
    /\ attemptAtResponse' = 0

\* The call's variables go out of scope.
EndCall ==
    /\ texts' = <<>>
    /\ useTagHandling' = TRUE
    /\ attempt' = 0
    /\ request' = NoRequest
    /\ response' = NoResponse
    /\ callRequests' = 0
    /\ callDelays' = <<>>
    /\ callRetryable' = 0
    /\ callParseFailures' = 0
    /\ lastHandled' = "none"
    /\ attemptAtResponse' = 0

\* main up to the locale loop: the credential check and the source catalog.
Main ==
    /\ pc = "main"
    /\ IF ~authKey
       THEN /\ pc' = "exit"
            /\ UNCHANGED <<sourceLocale, localeIndex>>
       ELSE /\ sourceLocale' = files[sourceLocaleFile]
            /\ IF Len(targetLocaleFiles) = 0
               THEN pc' = "done" /\ UNCHANGED localeIndex
               ELSE pc' = "locale" /\ localeIndex' = 1
    /\ UNCHANGED <<files, writeMode, rewriteExisting, batchSize, authKey, currentLocale,
                   updatedLocale, keysToTranslate, chunkIndex, translatedTexts,
                   translatedLocaleCount, callVars, runVars, toolVars>>

\* The locale loop is over.
EndOfLocales ==
    /\ pc = "locale"
    /\ localeIndex > Len(targetLocaleFiles)
    /\ pc' = "done"
    /\ UNCHANGED <<files, writeMode, rewriteExisting, batchSize, authKey, sourceLocale,
                   localeIndex, currentLocale, updatedLocale, keysToTranslate, chunkIndex,
                   translatedTexts, translatedLocaleCount, callVars, runVars, toolVars>>

\* A locale DeepL does not translate to is skipped before its file is read.
SkipLocale ==
    /\ pc = "locale"
    /\ localeIndex <= Len(targetLocaleFiles)
    /\ mapLocaleToDeepLTarget(localeCode) = <<>>
    /\ localeIndex' = localeIndex + 1
    /\ UNCHANGED <<files, writeMode, rewriteExisting, batchSize, authKey, pc, sourceLocale,
                   currentLocale, updatedLocale, keysToTranslate, chunkIndex,
                   translatedTexts, translatedLocaleCount, callVars, runVars, toolVars>>

\* The head of the locale loop: read the file, select the keys and, if there
\* are any, enter requestDeepLTranslation with the first chunk.
StartLocale ==
    /\ pc = "locale"
    /\ localeIndex <= Len(targetLocaleFiles)
    /\ mapLocaleToDeepLTarget(localeCode) # <<>>
    /\ LET current == files[localeCode]
           currentFlat == flattenMessages(current, <<>>, EmptyFlat)
           keys == SelectKeys(sourceKeys, sourceFlat, currentFlat, rewriteExisting)
       IN  /\ reads' = reads \cup {localeCode}
           /\ exchanges' = <<>>
           /\ IF Len(keys) = 0
              THEN /\ localeIndex' = localeIndex + 1
                   /\ UNCHANGED <<pc, currentLocale, updatedLocale, keysToTranslate,
                                  chunkIndex, callVars>>
              ELSE /\ currentLocale' = current
                   /\ updatedLocale' = current
                   /\ keysToTranslate' = keys
                   /\ chunkIndex' = 1
                   /\ BeginCall(SourceTexts(splitIntoChunks(keys, batchSize)[1]))
                   /\ pc' = "fetch"
                   /\ UNCHANGED localeIndex
    /\ UNCHANGED <<files, writeMode, rewriteExisting, batchSize, authKey, sourceLocale,
                   translatedTexts, translatedLocaleCount,
                   initialFiles, parseFailureSeen, requested, writeLog, toolVars>>

\* The head of the attempt loop: build the body and issue the request.
SendRequest ==
    /\ pc = "fetch"
    /\ IF attempt <= maxRetries
       THEN /\ request' = BuildRequest(texts, useTagHandling)
            /\ callRequests' = callRequests + 1
            /\ requested' = requested \cup {localeCode}
            /\ pc' = "await"
       ELSE /\ pc' = "failed"
            /\ UNCHANGED <<request, callRequests, requested>>
    /\ UNCHANGED <<files, writeMode, rewriteExisting, batchSize, authKey, sourceLocale,
                   localeIndex, currentLocale, updatedLocale, keysToTranslate, chunkIndex,
                   translatedTexts, translatedLocaleCount,
                   texts, useTagHandling, attempt, response, callDelays, callRetryable,
                   callParseFailures, lastHandled, attemptAtResponse,
                   initialFiles, parseFailureSeen, reads, writeLog, exchanges, toolVars>>

\* The service answers the request in flight with resp, and the rest of the
\* attempt loop's body runs on it.
HandleResponse(resp) ==
    /\ pc = "await"
    /\ response' = resp
    /\ callRetryable' = callRetryable + (IF ~ResponseOk(resp) /\ canRetry(resp) THEN 1 ELSE 0)
    /\ callParseFailures' = callParseFailures + (IF parseError(resp) THEN 1 ELSE 0)
    /\ parseFailureSeen' = (parseFailureSeen \/ parseError(resp))
    /\ LET todo == Disposition(resp, useTagHandling, attempt, Len(texts))
       IN  /\ lastHandled' = todo
           /\ attemptAtResponse' = attempt
           /\ CASE todo = "downgrade" ->
                     /\ useTagHandling' = FALSE
                     /\ attempt' = AttemptAfterDowngrade(attempt)
                     /\ pc' = "fetch"
                     /\ UNCHANGED <<callDelays, translatedTexts, exchanges>>
                [] todo = "retry" ->
                     /\ callDelays' = Append(callDelays, delayMs(attempt))
                     /\ pc' = "sleep"
                     /\ UNCHANGED <<useTagHandling, attempt, translatedTexts, exchanges>>
                [] todo = "throw" ->
                     /\ pc' = "failed"
                     /\ UNCHANGED <<useTagHandling, attempt, callDelays, translatedTexts,
                                    exchanges>>
                [] todo = "return" ->
                     /\ translatedTexts' = DecodeTranslations(resp.translations)
                     /\ exchanges' = Append(exchanges,
                            [texts |-> texts, translations |-> resp.translations])
                     /\ pc' = "returned"
                     /\ UNCHANGED <<useTagHandling, attempt, callDelays>>
    /\ UNCHANGED <<files, writeMode, rewriteExisting, batchSize, authKey, sourceLocale,
                   localeIndex, currentLocale, updatedLocale, keysToTranslate, chunkIndex,
                   translatedLocaleCount, texts, request, callRequests,
                   initialFiles, reads, requested, writeLog, toolVars>>

\* The backoff timer fires; `continue` runs the loop's attempt += 1.
WakeUp ==
    /\ pc = "sleep"
    /\ attempt' = attempt + 1
    /\ pc' = "fetch"
    /\ UNCHANGED <<files, writeMode, rewriteExisting, batchSize, authKey, sourceLocale,
                   localeIndex, currentLocale, updatedLocale, keysToTranslate, chunkIndex,
                   translatedTexts, translatedLocaleCount,
                   texts, useTagHandling, request, response, callRequests,
                   callDelays, callRetryable, callParseFailures, lastHandled,
                   attemptAtResponse, runVars, toolVars>>

\* ApplyTranslations, but the locale file is written after every chunk.
ApplyTranslationsWriteThrough ==
    /\ pc = "returned"
    /\ updatedLocale' = StoreTranslations(updatedLocale, keyChunks[chunkIndex],
                                          translatedTexts, 1)
    /\ files' = [files EXCEPT ![localeCode] = updatedLocale']
    /\ IF chunkIndex < Len(keyChunks)
       THEN /\ chunkIndex' = chunkIndex + 1
            /\ BeginCall(SourceTexts(keyChunks[chunkIndex + 1]))
            /\ pc' = "fetch"
       ELSE /\ EndCall
            /\ pc' = "finish"
            /\ UNCHANGED chunkIndex
    /\ translatedTexts' = <<>>
    /\ UNCHANGED <<writeMode, rewriteExisting, batchSize, authKey, sourceLocale,
                   localeIndex, currentLocale, keysToTranslate, translatedLocaleCount,
                   runVars, toolVars>>

\* main stores the translations of the chunk and goes on to the next chunk.
ApplyTranslations ==
    /\ pc = "returned"
    /\ updatedLocale' = StoreTranslations(updatedLocale, keyChunks[chunkIndex],
                                          translatedTexts, 1)
    /\ IF chunkIndex < Len(keyChunks)
       THEN /\ chunkIndex' = chunkIndex + 1
            /\ BeginCall(SourceTexts(keyChunks[chunkIndex + 1]))
            /\ pc' = "fetch"
       ELSE /\ EndCall
            /\ pc' = "finish"
            /\ UNCHANGED chunkIndex
    /\ translatedTexts' = <<>>
    /\ UNCHANGED <<files, writeMode, rewriteExisting, batchSize, authKey, sourceLocale,
                   localeIndex, currentLocale, keysToTranslate, translatedLocaleCount,
                   runVars, toolVars>>

\* before === after for a value of currentLocale and one of updatedLocale:
\* updatedLocale is a deep copy, so a mapping of the one is never the same
\* object as a mapping of the other.
StrictlyEqual(before, after) == before = after /\ before.kind # "object"

\* keysToTranslate.filter(before !== after)
ChangedKeys(before, after, keys) ==
    SelectSeq(keys, LAMBDA key : ~StrictlyEqual(getValueAtPath(before, key),
                                                getValueAtPath(after, key)))

\* After the last chunk: write the locale if something changed.
FinishLocale ==
    /\ pc = "finish"
    /\ LET changedKeys == ChangedKeys(currentLocale, updatedLocale, keysToTranslate)
       IN  IF Len(changedKeys) = 0
           THEN UNCHANGED <<files, writeLog, translatedLocaleCount>>
           ELSE /\ IF writeMode
                   THEN /\ files' = [files EXCEPT ![localeCode] = updatedLocale]
                        /\ writeLog' = FlatPut(writeLog, localeCode, updatedLocale)
                   ELSE UNCHANGED <<files, writeLog>>
                /\ translatedLocaleCount' = translatedLocaleCount + 1
    /\ localeIndex' = localeIndex + 1
    /\ currentLocale' = Undefined
    /\ updatedLocale' = Undefined
    /\ keysToTranslate' = <<>>
    /\ chunkIndex' = 0
    /\ pc' = "locale"
    /\ UNCHANGED <<writeMode, rewriteExisting, batchSize, authKey, sourceLocale,
                   translatedTexts, callVars,
                   initialFiles, parseFailureSeen, reads, requested, exchanges, toolVars>>

Next ==
    \/ Main
    \/ EndOfLocales
    \/ SkipLocale
    \/ StartLocale
    \/ SendRequest
    \/ \E resp \in Responses(Len(request.texts)) : HandleResponse(resp)
    \/ WakeUp
    \/ ApplyTranslations
    \/ FinishLocale

Spec == Init /\ [][Next]_vars

(***************************************************************************)
(* syncLocaleTree applied to drawn trees                                   *)
(***************************************************************************)
InitSync ==
    /\ baseNode \in SyncTrees
    /\ localeNode \in SyncTrees
    /\ syncCode \in {"fr-FR"}
    /\ keepExtra \in BOOLEAN
    /\ syncPhase = "input"
    /\ synced = NoSync
    /\ resynced = NoSync
    /\ changedLocaleCount = 0
    /\ ToolsIdle("sync")

\* syncLocaleTree(baseNode, localeNode, localeCode, '', stats, keepExtra)
\* with stats = { added: [], removed: [] }
CallSync ==
    /\ syncPhase = "input"
    /\ synced' = syncLocaleTree(baseNode, localeNode, CodeText(syncCode), <<>>,
                                EmptyStats, keepExtra)
    /\ syncPhase' = "synced"
    /\ UNCHANGED <<baseNode, localeNode, syncCode, keepExtra, resynced,
                   changedLocaleCount, exceptSync>>

\* The next run of the tool on the written file: syncLocaleTree(baseNode,
\* syncedLocale, localeCode, '', stats, keepExtra) with a fresh stats.
CallSyncAgain ==
    /\ syncPhase = "synced"
    /\ resynced' = syncLocaleTree(baseNode, synced.node, CodeText(syncCode), <<>>,
                                  EmptyStats, keepExtra)
    /\ syncPhase' = "resynced"
    /\ UNCHANGED <<baseNode, localeNode, syncCode, keepExtra, synced,
                   changedLocaleCount, exceptSync>>

NextSync == CallSync \/ CallSyncAgain

SpecSync == InitSync /\ [][NextSync]_vars

(***************************************************************************)
(* The placeholder codec applied to drawn texts: a text is encoded by one  *)
(* of the two encode paths, as requestDeepLTranslation does, and the       *)
(* encoded text is decoded, as it is when the service returns it unchanged.*)
(***************************************************************************)
\* Pieces of catalog texts: a placeholder, the five XML metacharacters,
\* plain characters, and literals that look like transit forms.  No piece
\* holds a brace outside a well-formed placeholder.
CodecPieces ==
    { <<"{","n","}">>, <<"&">>, <<"<">>, <<">">>, <<"\"">>, <<"'">>,
      <<"A">>, <<" ">>, <<"_","_">>, AMP, LT,
      TokenOpen \o <<"n">> \o TokenClose,
      TagOpen \o <<"n">> \o TagClose }

RECURSIVE TextsUpTo(_)
TextsUpTo(n) ==
    IF n = 0 THEN {<<>>}
    ELSE LET shorter == TextsUpTo(n - 1)
         IN  shorter \cup {t \o piece : t \in shorter, piece \in CodecPieces}

CodecTexts == TextsUpTo(MaxPieces)

InitCodec ==
    /\ codecText \in CodecTexts
    /\ codecPath \in {"tag", "fallback"}
    /\ encoded = <<>>
    /\ decoded = <<>>
    /\ codecPhase = "input"
    /\ ToolsIdle("codec")

\* useTagHandling ? encodePlaceholders(text) : encodePlaceholdersFallback(text)
Encode ==
    /\ codecPhase = "input"
    /\ encoded' = IF codecPath = "tag" THEN encodePlaceholders(codecText)
                  ELSE encodePlaceholdersFallback(codecText)
    /\ codecPhase' = "encoded"
    /\ UNCHANGED <<codecText, codecPath, decoded, exceptCodec>>

\* decodePlaceholders(String(entry.text ?? ''))
Decode ==
    /\ codecPhase = "encoded"
    /\ decoded' = decodePlaceholders(encoded)
    /\ codecPhase' = "decoded"
    /\ UNCHANGED <<codecText, codecPath, encoded, exceptCodec>>

NextCodec == Encode \/ Decode

SpecCodec == InitCodec /\ [][NextCodec]_vars

(***************************************************************************)
(* flattenMessages applied to drawn trees; a tree is then rebuilt from the *)
(* flat mapping with setValueAtPath, one dotted path at a time, in any     *)
(* order.                                                                  *)
(***************************************************************************)
FlatKeys == {"a", "a.b", "b"}
FlatLeaves == {StringValue(<<"x">>), NumberValue(<<"3">>)}

RECURSIVE FlatTreesUpTo(_)
FlatTreesUpTo(n) ==
    IF n <= 0 THEN {}
    ELSE LET objects == {ObjectValue(f) :
                           f \in UNION {IF S = {} THEN {<<>>}
                                         ELSE [S -> FlatTreesUpTo(n - Cardinality(S))] :
                                         S \in SUBSET FlatKeys}}
         IN  {t \in FlatLeaves \cup objects : NodeCount(t) <= n}

FlatTrees == FlatTreesUpTo(MaxFlatNodes)

InitFlat ==
    /\ flatTree \in FlatTrees
    /\ flat = EmptyFlat
    /\ pending = {}
    /\ rebuilt = EmptyObject
    /\ flatPhase = "input"
    /\ ToolsIdle("flatten")

\* flattenMessages(tree)
Flatten ==
    /\ flatPhase = "input"
    /\ flat' = flattenMessages(flatTree, <<>>, EmptyFlat)
    /\ pending' = DOMAIN flat'
    /\ flatPhase' = IF pending' = {} THEN "rebuilt" ELSE "flat"
    /\ UNCHANGED <<flatTree, rebuilt, exceptFlat>>

\* setValueAtPath(rebuilt, path, flat[path])
SetPath(path) ==
    /\ flatPhase = "flat"
    /\ path \in pending
    /\ rebuilt' = setValueAtPath(rebuilt, path, flat[path])
    /\ pending' = pending \ {path}
    /\ flatPhase' = IF pending' = {} THEN "rebuilt" ELSE "flat"
    /\ UNCHANGED <<flatTree, flat, exceptFlat>>

NextFlat ==
    \/ Flatten
    \/ \E path \in pending : SetPath(path)

SpecFlat == InitFlat /\ [][NextFlat]_vars

(***************************************************************************)
(* i18n-check.mjs                                                          *)
(***************************************************************************)
\* Array.from(placeholders).sort()
RECURSIVE SortNames(_)
SortNames(names) ==
    IF names = {} THEN <<>>
    ELSE LET first == CHOOSE a \in names : \A b \in names \ {a} : NameLess(a, b)
         IN  <<first>> \o SortNames(names \ {first})

\* The regex.exec loop of collectPlaceholders.
RECURSIVE PlaceholdersFrom(_, _, _)
PlaceholdersFrom(value, i, placeholders) ==
    IF i > Len(value) THEN placeholders
    ELSE LET match == MatchBrace(value, i)
         IN  IF match.ok
             THEN PlaceholdersFrom(value, match.next, placeholders \cup {match.name})
             ELSE PlaceholdersFrom(value, i + 1, placeholders)

collectPlaceholders(value) ==
    IF value.kind # "string" THEN <<>>
    ELSE SortNames(PlaceholdersFrom(value.text, 1, {}))

sameStringArray(left, right) ==
    /\ Len(left) = Len(right)
    /\ \A index \in 1..Len(left) : left[index] = right[index]

\* The text of a key segment and of a dotted key.
SegText(seg) ==
    CASE seg = "_meta" -> <<"_","m","e","t","a">>
      [] seg = "a"     -> <<"a">>
      [] seg = "b"     -> <<"b">>
      [] seg = "constructor" -> <<"c","o","n","s","t","r","u","c","t","o","r">>

RECURSIVE KeyText(_)
KeyText(key) ==
    IF key = <<>> THEN <<>>
    ELSE IF Len(key) = 1 THEN SegText(key[1])
    ELSE SegText(key[1]) \o <<".">> \o KeyText(Tail(key))

\* keyIsIgnored, but only the prefixes are looked at.
keyIsIgnoredByPrefixOnly(key, cfg) ==
    \E i \in 1..Len(cfg.ignoredUnusedKeyPrefixes) :
        startsWith(KeyText(key), cfg.ignoredUnusedKeyPrefixes[i])

keyIsIgnored(key, cfg) ==
    \/ \E i \in 1..Len(cfg.ignoredUnusedKeys) : cfg.ignoredUnusedKeys[i] = key
    \/ \E i \in 1..Len(cfg.ignoredUnusedKeyPrefixes) :
          startsWith(KeyText(key), cfg.ignoredUnusedKeyPrefixes[i])

\* new Set([...staticKeys, ...templateResolvedKeys, ...literalReferencedKeys])
UsedKeys(ex) == ex.staticKeys \cup ex.templateResolvedKeys \cup ex.literalReferencedKeys

\* usedButMissingInSource, but the static keys are not checked at all.
UsedButMissingInSourceSkipped(ex, srcKeys) == <<>>

\* extracted.staticKeys.filter((key) => !sourceKeys.includes(key)).sort()
UsedButMissingInSource(ex, srcKeys) ==
    SortPaths({key \in ex.staticKeys : key \notin Range(srcKeys)})

\* The flat keys every flat mapping inherits from Object.prototype, of which
\* the model takes one: flattenMessages starts from the literal {}.
ObjectPrototypeKeys == {<<"constructor">>}

\* key in mapping : true of an own key and of an inherited one.
HasProperty(mapping, key) == key \in DOMAIN mapping \/ key \in ObjectPrototypeKeys

\* The source catalog and the catalogs a locale file may hold when the
\* checker runs: in sync (placeholders reordered and repeated), a key
\* missing, an extra key, a placeholder missing, a number for a text, a
\* key missing together with a placeholder mismatch, and an extra key named
\* like a member of Object.prototype.
NandM == <<"{","n","}"," ","{","m","}">>
MandNandN == <<"{","m","}"," ","{","n","}"," ","{","n","}">>
OnlyN == <<"{","n","}">>

CheckSource ==
    ObjectValue(("_meta" :> ObjectValue("a" :> StringValue(<<"E","n">>)))
             @@ ("a" :> StringValue(NandM))
             @@ ("b" :> ObjectValue("a" :> StringValue(<<"H","i">>))))

CheckCatalog(aValue, bKeys) ==
    ObjectValue(("_meta" :> ObjectValue("a" :> StringValue(<<"D","e">>)))
             @@ ("a" :> aValue)
             @@ ("b" :> ObjectValue([k \in bKeys |-> StringValue(<<"H","e","j">>)])))

CheckCatalogs ==
    { CheckCatalog(StringValue(MandNandN), {"a"}),
      CheckCatalog(StringValue(NandM), {}),
      CheckCatalog(StringValue(NandM), {"a", "b"}),
      CheckCatalog(StringValue(OnlyN), {"a"}),
      CheckCatalog(NumberValue(<<"3">>), {"a"}),
      CheckCatalog(StringValue(OnlyN), {}),
      ObjectValue(CheckCatalog(StringValue(MandNandN), {"a"}).kids
                  @@ ("constructor" :> StringValue(<<"H","e","j">>))) }

\* Results of extractKeysFromSource: the template-resolved and the literal
\* keys are source keys, a static key may be unknown to the source.
Extractions ==
    [staticKeys : {{}, {<<"a">>}, {<<"a">>, <<"b">>}, {<<"b">>, <<"b", "a">>}},
     templateResolvedKeys : {{}, {<<"b", "a">>}},
     literalReferencedKeys : {{}, {<<"a">>}},
     variableExpressions : {{}, {<<"a">>}}]

\* Results of loadGuardrailsConfig.
Configs ==
    { DEFAULT_CONFIG,
      [ignoredUnusedKeyPrefixes |-> <<>>, ignoredUnusedKeys |-> << <<"a">> >>],
      [ignoredUnusedKeyPrefixes |-> << <<"b">> >>, ignoredUnusedKeys |-> <<>>] }

InitCheck ==
    /\ chkLocaleFiles \in {localeFiles, <<"de-DE", "fr-FR", "pl-PL">>}
    /\ chkFiles \in {f \in [Range(localeFiles) -> CheckCatalogs \cup {CheckSource}] :
                       /\ f["en-US"] = CheckSource
                       /\ f["de-DE"] \in CheckCatalogs
                       /\ f["fr-FR"] \in CheckCatalogs
                       /\ f["pl-PL"] \in {CheckCatalog(StringValue(MandNandN), {"a"}),
                                          CheckCatalog(StringValue(NandM), {})}}
    /\ extracted \in Extractions
    /\ config \in Configs
    /\ chkPc = "start"
    /\ chkIndex = 0
    /\ usedKeySet = {}
    /\ errors = <<>>
    /\ warnings = <<>>
    /\ exitCode = -1
    /\ ToolsIdle("check")

chkSourceFlat == flattenMessages(chkFiles[sourceLocaleFile], <<>>, EmptyFlat)
chkSourceKeys == SortPaths(DOMAIN chkSourceFlat)

\* if (!localeFiles.includes(sourceLocaleFile)) { ...; process.exit(1); }
CheckSourceMissing ==
    /\ chkPc = "start"
    /\ sourceLocaleFile \notin Range(chkLocaleFiles)
    /\ chkPc' = "exit"
    /\ exitCode' = 1
    /\ UNCHANGED <<chkLocaleFiles, chkFiles, extracted, config, chkIndex, usedKeySet,
                   errors, warnings, exceptCheck>>

\* main up to the loop over the locale files.
CheckLoad ==
    /\ chkPc = "start"
    /\ sourceLocaleFile \in Range(chkLocaleFiles)
    /\ usedKeySet' = UsedKeys(extracted)
    /\ LET usedButMissingInSource == UsedButMissingInSource(extracted, chkSourceKeys)
       IN  errors' = IF Len(usedButMissingInSource) > 0
                     THEN <<[kind |-> "usedButMissingInSource", locale |-> "",
                             keys |-> usedButMissingInSource]>>
                     ELSE <<>>
    /\ chkPc' = "locales"
    /\ chkIndex' = 1
    /\ UNCHANGED <<chkLocaleFiles, chkFiles, extracted, config, warnings, exitCode,
                   exceptCheck>>

\* if (localeFile === sourceLocaleFile) continue;
CheckSkipSource ==
    /\ chkPc = "locales"
    /\ chkIndex <= Len(chkLocaleFiles)
    /\ chkLocaleFiles[chkIndex] = sourceLocaleFile
    /\ chkIndex' = chkIndex + 1
    /\ UNCHANGED <<chkLocaleFiles, chkFiles, extracted, config, chkPc, usedKeySet,
                   errors, warnings, exitCode, exceptCheck>>

\* The errors one pass of the loop body pushes for a locale file.
LocaleErrors(localeFile) ==
    LET localeFlat == flattenMessages(chkFiles[localeFile], <<>>, EmptyFlat)
        localeKeys == SortPaths(DOMAIN localeFlat)
        NotInLocale(key) == ~HasProperty(localeFlat, key)
        NotInSource(key) == ~HasProperty(chkSourceFlat, key)
        missingKeys == SelectSeq(chkSourceKeys, NotInLocale)
        extraKeys == SelectSeq(localeKeys, NotInSource)
        Mismatch(key) ==
            /\ chkSourceFlat[key].kind = "string"
            /\ key \in DOMAIN localeFlat
            /\ localeFlat[key].kind = "string"
            /\ ~sameStringArray(collectPlaceholders(chkSourceFlat[key]),
                                collectPlaceholders(localeFlat[key]))
        placeholderMismatches == SelectSeq(chkSourceKeys, Mismatch)
    IN  (IF Len(missingKeys) > 0
         THEN <<[kind |-> "missing", locale |-> localeFile, keys |-> missingKeys]>>
         ELSE <<>>)
        \o (IF Len(extraKeys) > 0
            THEN <<[kind |-> "extra", locale |-> localeFile, keys |-> extraKeys]>>
            ELSE <<>>)
        \o (IF Len(placeholderMismatches) > 0
            THEN <<[kind |-> "placeholder", locale |-> localeFile,
                    keys |-> placeholderMismatches]>>
            ELSE <<>>)

\* One pass of the loop body for a locale file other than the source's.
CheckLocale ==
    /\ chkPc = "locales"
    /\ chkIndex <= Len(chkLocaleFiles)
    /\ chkLocaleFiles[chkIndex] # sourceLocaleFile
    /\ errors' = errors \o LocaleErrors(chkLocaleFiles[chkIndex])
    /\ chkIndex' = chkIndex + 1
    /\ UNCHANGED <<chkLocaleFiles, chkFiles, extracted, config, chkPc, usedKeySet,
                   warnings, exitCode, exceptCheck>>

\* After the loop: the stale source keys and the variable expressions.
CheckWarnings ==
    /\ chkPc = "locales"
    /\ chkIndex > Len(chkLocaleFiles)
    /\ LET Stale(key) == key \notin usedKeySet /\ ~keyIsIgnored(key, config)
           staleSourceKeys == SelectSeq(chkSourceKeys, Stale)
       IN  warnings' =
               (IF Len(staleSourceKeys) > 0
                THEN <<[kind |-> "stale", keys |-> staleSourceKeys]>>
                ELSE <<>>)
               \o (IF extracted.variableExpressions # {}
                   THEN <<[kind |-> "variable",
                           keys |-> SortPaths(extracted.variableExpressions)]>>
                   ELSE <<>>)
    /\ chkPc' = "report"
    /\ UNCHANGED <<chkLocaleFiles, chkFiles, extracted, config, chkIndex, usedKeySet,
                   errors, exitCode, exceptCheck>>

\* if (errors.length > 0) { ...; process.exit(1); } ; the run ends with 0
\* otherwise.
CheckReport ==
    /\ chkPc = "report"
    /\ IF Len(errors) > 0
       THEN chkPc' = "failed" /\ exitCode' = 1
       ELSE chkPc' = "passed" /\ exitCode' = 0
    /\ UNCHANGED <<chkLocaleFiles, chkFiles, extracted, config, chkIndex, usedKeySet,
                   errors, warnings, exceptCheck>>

NextCheck ==
    \/ CheckSourceMissing
    \/ CheckLoad
    \/ CheckSkipSource
    \/ CheckLocale
    \/ CheckWarnings
    \/ CheckReport

SpecCheck == InitCheck /\ [][NextCheck]_vars

(***************************************************************************)
(* i18n-sync.mjs.  The objects syncLocaleTree stores into are followed     *)
(* next to its result: a store names the object it assigns into ("new"    *)
(* for an object the call created, "base" and "locale" for the trees it   *)
(* was given), the path of that object in its tree, the key and the value.*)
(***************************************************************************)
\* nextNode, but the target's mapping is filled in place of a new object.
NextNodeInPlace(target) == IF isPlainObject(target) THEN "locale" ELSE "new"

\* const nextNode = {};
NextNode(target) == "new"

\* The assignments nextNode[key] = ... of a call and of the calls below it.
RECURSIVE SyncStores(_, _, _, _, _)
SyncStores(base, locale, code, pathPrefix, keep) ==
    IF ~isPlainObject(base) THEN {}
    ELSE LET localeObject == IF isPlainObject(locale) THEN locale ELSE EmptyObject
             nextNode == NextNode(locale)
             Child(key) == IF hasOwnProperty(localeObject, key)
                           THEN localeObject.kids[key] ELSE Undefined
         IN  {[object |-> nextNode, path |-> pathPrefix, key |-> key,
               value |-> syncLocaleTree(base.kids[key], Child(key), code,
                                        Append(pathPrefix, key), EmptyStats, keep).node] :
                 key \in Range(ObjectKeys(base))}
             \cup (IF keep
                   THEN {[object |-> nextNode, path |-> pathPrefix, key |-> key,
                          value |-> localeObject.kids[key]] :
                            key \in Range(ObjectKeys(localeObject)) \ Range(ObjectKeys(base))}
                   ELSE {})
             \cup UNION {SyncStores(base.kids[key], Child(key), code,
                                    Append(pathPrefix, key), keep) :
                            key \in Range(ObjectKeys(base))}

\* A tree the call was given, after the stores that went into it: the
\* stores of the inner calls come first.
RECURSIVE TreeAfter(_, _, _)
TreeAfter(tree, object, stores) ==
    LET mine == {st \in stores : st.object = object}
    IN  IF mine = {} THEN tree
        ELSE LET st == CHOOSE a \in mine : \A b \in mine : Len(a.path) >= Len(b.path)
             IN  TreeAfter(setValueAtPath(tree, Append(st.path, st.key), st.value),
                           object, stores \ {st})

\* The catalogs a target locale file may hold when a sync run starts: those
\* of a translate run, and a synchronized one with a key the source lacks.
SyncCatalogs(code) ==
    LocaleCatalogs(code)
    \cup {setValueAtPath(syncLocaleTree(SourceCatalog, EmptyObject, CodeText(code),
                                        <<>>, EmptyStats, FALSE).node,
                         <<"b", "_meta">>, StringValue(<<"O","l","d">>))}

\* What a run of i18n-sync.mjs leaves alone.
exceptSyncTool == <<rewriteExisting, batchSize, authKey, updatedLocale, keysToTranslate,
                    chunkIndex, translatedTexts, translatedLocaleCount, callVars,
                    initialFiles, parseFailureSeen, requested, exchanges,
                    baseNode, localeNode, syncCode, syncPhase, resynced,
                    codecVars, flatVars, checkVars, extractVars>>

\* The state when node scripts/i18n-sync.mjs starts.
InitSyncTool ==
    /\ files \in {f \in [Range(localeFiles) -> SyncCatalogs("de-DE")
                                              \cup SyncCatalogs("fr-FR")
                                              \cup SyncCatalogs("pl-PL")
                                              \cup {SourceCatalog}] :
                    /\ f["en-US"] = SourceCatalog
                    /\ f["de-DE"] \in SyncCatalogs("de-DE")
                    /\ f["fr-FR"] \in SyncCatalogs("fr-FR")
                    /\ f["pl-PL"] \in {EmptyObject,
                                       syncLocaleTree(SourceCatalog, EmptyObject,
                                                      CodeText("pl-PL"), <<>>,
                                                      EmptyStats, FALSE).node}}
    /\ initialFiles = files
    /\ writeMode \in BOOLEAN
    /\ keepExtra \in BOOLEAN
    /\ pc = "syncMain"
    /\ sourceLocale = Undefined
    /\ localeIndex = 0
    /\ currentLocale = Undefined
    /\ synced = NoSync
    /\ changedLocaleCount = 0
    /\ reads = {}
    /\ writeLog = EmptyFlat
    /\ rewriteExisting = FALSE
    /\ batchSize = DEFAULT_BATCH_SIZE
    /\ authKey = FALSE
    /\ updatedLocale = Undefined
    /\ keysToTranslate = <<>>
    /\ chunkIndex = 0
    /\ translatedTexts = <<>>
    /\ translatedLocaleCount = 0
    /\ CallIdle
    /\ parseFailureSeen = FALSE
    /\ requested = {}
    /\ exchanges = <<>>
    /\ baseNode = EmptyObject
    /\ localeNode = EmptyObject
    /\ syncCode = "fr-FR"
    /\ syncPhase = "idle"
    /\ resynced = NoSync
    /\ CodecIdle
    /\ FlatIdle
    /\ CheckIdle
    /\ ExtractIdle

\* main up to the loop: the listing holds the source file, which is read.
SyncLoadSource ==
    /\ pc = "syncMain"
    /\ sourceLocaleFile \in Range(localeFiles)
    /\ sourceLocale' = files[sourceLocaleFile]
    /\ reads' = reads \cup {sourceLocaleFile}
    /\ changedLocaleCount' = 0
    /\ localeIndex' = 1
    /\ pc' = "syncLocale"
    /\ UNCHANGED <<files, writeMode, currentLocale, writeLog, keepExtra, synced,
                   exceptSyncTool>>

\* if (localeFile === sourceLocaleFile) continue;
SyncSkipSource ==
    /\ pc = "syncLocale"
    /\ localeIndex <= Len(localeFiles)
    /\ localeFiles[localeIndex] = sourceLocaleFile
    /\ localeIndex' = localeIndex + 1
    /\ UNCHANGED <<files, writeMode, pc, sourceLocale, currentLocale, reads, writeLog,
                   keepExtra, synced, changedLocaleCount, exceptSyncTool>>

\* The loop body up to writeJson: the file is read and synchronized with a
\* new stats; an unchanged locale ends the pass.
SyncLocale ==
    /\ pc = "syncLocale"
    /\ localeIndex <= Len(localeFiles)
    /\ localeFiles[localeIndex] # sourceLocaleFile
    /\ LET localeFile == localeFiles[localeIndex]
           read == files[localeFile]
           stores == SyncStores(sourceLocale, read, CodeText(localeFile), <<>>, keepExtra)
           syncedLocale == syncLocaleTree(sourceLocale, read, CodeText(localeFile), <<>>,
                                          EmptyStats, keepExtra)
           changed == Len(syncedLocale.stats.added) > 0 \/ Len(syncedLocale.stats.removed) > 0
       IN  /\ reads' = reads \cup {localeFile}
           /\ sourceLocale' = TreeAfter(sourceLocale, "base", stores)
           /\ currentLocale' = TreeAfter(read, "locale", stores)
           /\ synced' = syncedLocale
           /\ changedLocaleCount' = IF changed THEN changedLocaleCount + 1
                                    ELSE changedLocaleCount
           /\ IF changed /\ writeMode
              THEN pc' = "syncWrite" /\ localeIndex' = localeIndex
              ELSE pc' = "syncLocale" /\ localeIndex' = localeIndex + 1
    /\ UNCHANGED <<files, writeMode, writeLog, keepExtra, exceptSyncTool>>

\* await writeJson(localePath, syncedLocale);
SyncWrite ==
    /\ pc = "syncWrite"
    /\ files' = [files EXCEPT ![localeFiles[localeIndex]] = synced.node]
    /\ writeLog' = FlatPut(writeLog, localeFiles[localeIndex], synced.node)
    /\ localeIndex' = localeIndex + 1
    /\ pc' = "syncLocale"
    /\ UNCHANGED <<writeMode, sourceLocale, currentLocale, reads, keepExtra, synced,
                   changedLocaleCount, exceptSyncTool>>

\* After the loop the run ends.
SyncEnd ==
    /\ pc = "syncLocale"
    /\ localeIndex > Len(localeFiles)
    /\ pc' = "syncDone"
    /\ UNCHANGED <<files, writeMode, sourceLocale, localeIndex, currentLocale, reads,
                   writeLog, keepExtra, synced, changedLocaleCount, exceptSyncTool>>

NextSyncTool ==
    \/ SyncLoadSource
    \/ SyncSkipSource
    \/ SyncLocale
    \/ SyncWrite
    \/ SyncEnd

SpecSyncTool == InitSyncTool /\ [][NextSyncTool]_vars

\* The three tools that walk the locale files: one of them runs.
InitTools == Init \/ InitSyncTool \/ InitCheck
NextTools == Next \/ NextSyncTool \/ NextCheck
SpecTools == InitTools /\ [][NextTools]_vars

(***************************************************************************)
(* extractTemplateCallKeys and wildcardToRegex                             *)
(***************************************************************************)
MaxTemplateParts == 3

\* String.prototype.trim()
RECURSIVE trimStart(_)
trimStart(text) ==
    IF text # <<>> /\ Head(text) \in WhiteSpace THEN trimStart(Tail(text)) ELSE text

RECURSIVE trimEnd(_)
trimEnd(text) ==
    IF text # <<>> /\ text[Len(text)] \in WhiteSpace
    THEN trimEnd(SubSeq(text, 1, Len(text) - 1))
    ELSE text

trim(text) == trimEnd(trimStart(text))

\* templateBody.replace(/\$\{[^}]+\}/g, '*') from index i on: a match starts
\* at "${", takes at least one character other than '}' and ends at the
\* first '}' after them.
RECURSIVE ReplaceInterpolations(_, _)
ReplaceInterpolations(text, i) ==
    IF i > Len(text) THEN <<>>
    ELSE LET close == IndexOf(text, i + 2, "}")
             matches == /\ IsPrefixAt(text, i, <<"$", "{">>)
                        /\ close > i + 2
                        /\ close <= Len(text)
         IN  IF matches
             THEN <<"*">> \o ReplaceInterpolations(text, close + 1)
             ELSE <<text[i]>> \o ReplaceInterpolations(text, i + 1)

\* The characters of the class [.*+?^${}()|[\]\\]
RegexSpecials == {".", "*", "+", "?", "^", "$", "{", "}", "(", ")", "|", "[", "]", "\\"}

\* pattern.replace(/[.*+?^${}()|[\]\\]/g, '\\$&')
RECURSIVE EscapeSpecials(_)
EscapeSpecials(pattern) ==
    IF pattern = <<>> THEN <<>>
    ELSE (IF Head(pattern) \in RegexSpecials THEN <<"\\", Head(pattern)>>
          ELSE <<Head(pattern)>>)
         \o EscapeSpecials(Tail(pattern))

NotDot == <<"[", "^", ".", "]", "+">>

\* escaped.replace(/\\\*/g, '[^.]+') from index i on
RECURSIVE ReplaceEscapedStars(_, _)
ReplaceEscapedStars(escaped, i) ==
    IF i > Len(escaped) THEN <<>>
    ELSE IF IsPrefixAt(escaped, i, <<"\\", "*">>)
         THEN NotDot \o ReplaceEscapedStars(escaped, i + 2)
         ELSE <<escaped[i]>> \o ReplaceEscapedStars(escaped, i + 1)

\* The source of the expression wildcardToRegex builds, between ^ and $.
wildcardToRegex(pattern) == ReplaceEscapedStars(EscapeSpecials(pattern), 1)

\* The expression matches key from index j on to its end, read from index i
\* on: [^.]+ takes one or more characters other than '.', an escaped
\* character and a plain one take themselves.
RECURSIVE MatchesFrom(_, _, _, _)
MatchesFrom(regex, i, key, j) ==
    IF i > Len(regex) THEN j > Len(key)
    ELSE IF IsPrefixAt(regex, i, NotDot)
         THEN \E n \in 1..(Len(key) - j + 1) :
                 /\ \A k \in j..(j + n - 1) : key[k] # "."
                 /\ MatchesFrom(regex, i + Len(NotDot), key, j + n)
         ELSE IF regex[i] = "\\"
              THEN /\ i + 1 <= Len(regex)
                   /\ j <= Len(key)
                   /\ key[j] = regex[i + 1]
                   /\ MatchesFrom(regex, i + 2, key, j + 1)
              ELSE /\ j <= Len(key)
                   /\ key[j] = regex[i]
                   /\ MatchesFrom(regex, i + 1, key, j + 1)

\* regex.test(key)
RegexTest(regex, key) == MatchesFrom(regex, 1, key, 1)

\* The parts a template body is written from: literal runs, a blank, a
\* literal star, an interpolation, and an interpolation whose expression
\* holds braces.
PlainInterpolation == <<"$", "{", "x", "}">>
BracedInterpolation == <<"$", "{", "f", "(", "{", "}", ")", "}">>
Interpolations == {PlainInterpolation, BracedInterpolation}
TemplatePieces ==
    { <<"a", ".", "b", ".">>, <<"a", ".">>, <<"x", ".">>, <<"c">>, <<".">>,
      <<" ">>, <<"*">>, <<"(">> } \cup Interpolations

RECURSIVE PartsUpTo(_)
PartsUpTo(n) ==
    IF n = 0 THEN {<<>>}
    ELSE LET shorter == PartsUpTo(n - 1)
         IN  shorter \cup {Append(parts, piece) : parts \in shorter, piece \in TemplatePieces}

RECURSIVE Joined(_)
Joined(parts) == IF parts = <<>> THEN <<>> ELSE Head(parts) \o Joined(Tail(parts))

\* The known keys of a catalog, as texts.
KeySets ==
    { { <<"a",".","b",".","c">>, <<"a",".","b",".","d">>, <<"x",".","y">> },
      { <<"a",".","b",".","c">>, <<"a",".","b",".","c",".","d">>, <<"a",".","b">>,
        <<"a",".","b",".">> },
      { <<"a",".","c">>, <<"x",".","a",".","c">>, <<"a",".","(">>, <<"c">> } }

\* One template call is matched in the content: match[1] is not empty.
InitExtract ==
    /\ templateParts \in PartsUpTo(MaxTemplateParts) \ {<<>>}
    /\ baseKeys \in KeySets
    /\ collector = EmptyCollector
    /\ extractPhase = "matched"
    /\ ToolsIdle("extract")

\* The body of the while loop of extractTemplateCallKeys for the match.
ExtractTemplateCall ==
    /\ extractPhase = "matched"
    /\ LET templateBody == trim(Joined(templateParts))
       IN  IF includes(templateBody, <<"$", "{">>)
           THEN LET wildcard == ReplaceInterpolations(templateBody, 1)
                    regex == wildcardToRegex(wildcard)
                IN  collector' =
                        [collector EXCEPT
                            !.templatePatterns = @ \cup {wildcard},
                            !.templateResolvedKeys =
                                @ \cup {key \in baseKeys : RegexTest(regex, key)}]
           ELSE collector' = [collector EXCEPT !.staticKeys = @ \cup {templateBody}]
    /\ extractPhase' = "extracted"
    /\ UNCHANGED <<templateParts, baseKeys, exceptExtract>>

NextExtract == ExtractTemplateCall

SpecExtract == InitExtract /\ [][NextExtract]_vars

(***************************************************************************)
(* Properties of requestDeepLTranslation and of the translate run          *)
(***************************************************************************)
\* The response the call handled last is a rate-limit or server-fault answer.
RetryableAnswer == ~ResponseOk(response) /\ canRetry(response)

\* C1: with no tag-handling parse failure in the call, a 429/5xx answer
\* makes the call fail only when it is the maxRetries-th such answer; and a
\* call that returns after k such answers has issued exactly k+1 requests,
\* waited exactly k times, and returns one decoded translation per submitted
\* text, the i-th being the decoded i-th translation of the response, whose
\* request carried the texts in submission order.
C1_RetryThenSuccess ==
    /\ (pc = "failed" /\ callParseFailures = 0 /\ RetryableAnswer)
          => callRetryable >= maxRetries
    /\ (pc = "returned" /\ callParseFailures = 0)
          => /\ callRetryable < maxRetries
             /\ callRequests = callRetryable + 1
             /\ Len(callDelays) = callRetryable
             /\ Len(translatedTexts) = Len(texts)
             /\ request.texts = [i \in 1..Len(texts) |-> encodePlaceholders(texts[i])]
             /\ \A i \in 1..Len(texts) :
                    translatedTexts[i] = decodePlaceholders(response.translations[i])

\* C1 witness: a two-text call returns after one 429/5xx answer and one wait.
C1_Witness ==
    /\ pc = "returned"
    /\ callParseFailures = 0
    /\ callRetryable = 1
    /\ callRequests = 2
    /\ callDelays = <<400>>
    /\ Len(texts) = 2
    /\ translatedTexts[1] # translatedTexts[2]

\* C2: once a response has signalled a tag-handling parse failure, every
\* request in flight later in the run is sent without tag handling and with
\* the fallback token encoding.
C2_TagHandlingStaysDisabled ==
    (parseFailureSeen /\ pc = "await")
        => /\ ~request.tagHandling
           /\ request.texts = [i \in 1..Len(texts) |-> encodePlaceholdersFallback(texts[i])]

\* C3: a parse-failure answer to a request sent with tag handling is handled
\* by the downgrade, and the request that follows carries the same texts in
\* the same order in the fallback token encoding, without tag handling, with
\* the attempt counter at the value it had when the failure arrived.
C3_DowngradeKeepsAttempt ==
    /\ (pc # "await" /\ parseError(response) /\ request.tagHandling)
          => /\ lastHandled = "downgrade"
             /\ pc = "fetch"
             /\ attempt = attemptAtResponse
    /\ (pc = "await" /\ lastHandled = "downgrade")
          => /\ ~request.tagHandling
             /\ request.texts =
                    [i \in 1..Len(texts) |-> encodePlaceholdersFallback(texts[i])]
             /\ attempt = attemptAtResponse
             /\ maxRetries - attempt = maxRetries - attemptAtResponse

\* C3 witness: the re-issue of a two-text batch after a downgrade on attempt 2.
C3_Witness ==
    /\ pc = "await"
    /\ lastHandled = "downgrade"
    /\ attempt = 2
    /\ callDelays = <<400>>
    /\ Len(texts) = 2
    /\ request.texts # [i \in 1..Len(texts) |-> encodePlaceholders(texts[i])]

\* C4: a call never issues more than maxRetries+1 requests and never
\* receives more than maxRetries 429/5xx answers; the maxRetries-th such
\* answer makes it fail, on attempt maxRetries, after maxRetries-1 waits and
\* maxRetries requests plus the downgrade re-issue if there was one; and a
\* 429/5xx answer makes it fail on no attempt below maxRetries.
C4_RetryCeiling ==
    /\ callRequests <= maxRetries + 1
    /\ callRetryable <= maxRetries
    /\ callRetryable = maxRetries
          => /\ pc = "failed"
             /\ attemptAtResponse = maxRetries
             /\ Len(callDelays) = maxRetries - 1
             /\ callRequests = maxRetries + (IF useTagHandling THEN 0 ELSE 1)
    /\ (pc = "failed" /\ RetryableAnswer) => attemptAtResponse = maxRetries

\* C4 witness: every attempt was answered 429/5xx and the call has failed.
C4_Witness ==
    /\ pc = "failed"
    /\ callRetryable = maxRetries
    /\ callParseFailures = 0
    /\ callRequests = maxRetries
    /\ callDelays = <<400, 800>>

\* The answer resp is fatal at once: neither 429/5xx, nor a parse failure
\* under enabled tag handling, nor a success with one translation per text.
ImmediatelyFatal(resp, useTag, nTexts) ==
    IF ResponseOk(resp)
    THEN ~resp.hasTranslations \/ Len(resp.translations) # nTexts
    ELSE ~canRetry(resp) /\ ~(useTag /\ parseError(resp))

\* C5: the step that handles an immediately fatal answer ends in the error,
\* with no wait added and no request issued, whatever the attempt; and no
\* step follows the error.
C5_OtherFailuresFatal ==
    [][/\ pc # "failed"
       /\ (pc = "await" /\ ImmediatelyFatal(response', useTagHandling, Len(texts)))
             => /\ pc' = "failed"
                /\ callDelays' = callDelays
                /\ callRequests' = callRequests
                /\ request' = request
                /\ attempt' = attempt]_vars

\* C5 witness: a 403 on the second attempt has ended the call.
C5_Witness ==
    /\ pc = "failed"
    /\ response.status = 403
    /\ attemptAtResponse = 2
    /\ callDelays = <<400>>
    /\ callRequests = 2

\* C6: when a call has failed, the file of the locale being translated is
\* as it was when the run started and was not written; the files of the
\* locales before it hold what the run wrote to them (or their initial
\* content); the locales after it were not read, requested or written; and
\* the run takes no further step.
C6_FatalAbortsBeforeWrite ==
    pc = "failed" =>
        /\ files[localeCode] = initialFiles[localeCode]
        /\ localeCode \notin DOMAIN writeLog
        /\ \A i \in 1..Len(targetLocaleFiles) :
              LET file == targetLocaleFiles[i]
              IN  /\ i < localeIndex =>
                        files[file] = IF file \in DOMAIN writeLog THEN writeLog[file]
                                      ELSE initialFiles[file]
                  /\ i > localeIndex =>
                        /\ file \notin reads \cup requested \cup DOMAIN writeLog
                        /\ files[file] = initialFiles[file]
        /\ files[sourceLocaleFile] = initialFiles[sourceLocaleFile]
        /\ ~ENABLED Next

\* C6 witness: the second batch of fr-FR fails after its first batch
\* changed a value, de-DE having been written earlier in the run.
C6_Witness ==
    /\ pc = "failed"
    /\ localeCode = "fr-FR"
    /\ chunkIndex = 2
    /\ updatedLocale # currentLocale
    /\ "de-DE" \in DOMAIN writeLog
    /\ files["de-DE"] # initialFiles["de-DE"]

\* No translation of the locale came back empty or blank.
NoEmptyResults ==
    \A j \in 1..Len(exchanges) : \A i \in 1..Len(exchanges[j].translations) :
        ~IsBlank(decodePlaceholders(exchanges[j].translations[i]))

\* C7: after the last batch of a locale without empty results, every
\* selected key was submitted in some batch, and the value under the key is
\* the decoded translation at the position its source text had in the batch.
C7_PositionalAlignment ==
    (pc = "finish" /\ NoEmptyResults) =>
        \A k \in 1..Len(keysToTranslate) :
            LET key == keysToTranslate[k]
                places == {<<j, i>> \in (1..Len(exchanges)) \X (1..batchSize) :
                              /\ i <= Len(exchanges[j].texts)
                              /\ exchanges[j].texts[i] = sourceFlat[key].text}
            IN  /\ places # {}
                /\ \A pl \in places :
                      getValueAtPath(updatedLocale, key) =
                          StringValue(decodePlaceholders(
                              exchanges[pl[1]].translations[pl[2]]))

\* C7 witness: two keys translated in one batch to different texts, one of
\* which the codec changes.
C7_Witness ==
    /\ pc = "finish"
    /\ NoEmptyResults
    /\ Len(keysToTranslate) = 2
    /\ Len(exchanges) = 1
    /\ exchanges[1].translations[1] # exchanges[1].translations[2]
    /\ decodePlaceholders(exchanges[1].translations[2]) # exchanges[1].translations[2]

\* C8: the j-th wait of a call lasts 400 * 2^(j-1) ms, and every wait
\* consumes exactly one attempt: the call is on attempt (number of waits)+1
\* while it sends or awaits, and waits the a-th wait after attempt a,
\* whether or not a downgrade happened in between.
C8_BackoffDoubles ==
    /\ \A j \in 1..Len(callDelays) : callDelays[j] = 400 * 2 ^ (j - 1)
    /\ pc = "sleep" => attempt = Len(callDelays)
    /\ pc \in {"fetch", "await"} => attempt = Len(callDelays) + 1

\* C8 witness: the second wait of a call that was downgraded in between.
C8_Witness ==
    /\ pc = "sleep"
    /\ callDelays = <<400, 800>>
    /\ ~useTagHandling
    /\ attempt = 2

(***************************************************************************)
(* Properties of syncLocaleTree                                            *)
(***************************************************************************)
\* The value at a path of a tree (Undefined if there is none).
RECURSIVE NodeAt(_, _)
NodeAt(tree, path) ==
    IF path = <<>> THEN tree
    ELSE IF tree.kind = "object" /\ Head(path) \in DOMAIN tree.kids
         THEN NodeAt(tree.kids[Head(path)], Tail(path))
         ELSE Undefined

\* The paths of a tree, the root's empty path included.
RECURSIVE PathsOf(_, _)
PathsOf(tree, prefix) ==
    {prefix} \cup
    (IF tree.kind = "object"
     THEN UNION {PathsOf(tree.kids[k], Append(prefix, k)) : k \in DOMAIN tree.kids}
     ELSE {})

BranchPaths(tree) == {p \in PathsOf(tree, <<>>) : NodeAt(tree, p).kind = "object"}
LeafPaths(tree) == {p \in PathsOf(tree, <<>>) : NodeAt(tree, p).kind # "object"}

\* C9: with keepExtra=false the output has base's branch paths
\* and base's leaf paths, whatever the target.
C9_ShapedLikeBase ==
    (syncPhase = "synced" /\ ~keepExtra) =>
        /\ BranchPaths(synced.node) = BranchPaths(baseNode)
        /\ LeafPaths(synced.node) = LeafPaths(baseNode)

\* C9 amended: with keepExtra=false every branch of base is a branch of the
\* output with exactly base's keys, and every leaf path of base is in the
\* output, where it holds the target's object if the target holds an object
\* there and a leaf otherwise.
C9_ShapedLikeBaseUnlessObjectTarget ==
    (syncPhase = "synced" /\ ~keepExtra) =>
        /\ \A p \in BranchPaths(baseNode) :
              /\ NodeAt(synced.node, p).kind = "object"
              /\ DOMAIN NodeAt(synced.node, p).kids = DOMAIN NodeAt(baseNode, p).kids
        /\ \A p \in LeafPaths(baseNode) :
              IF NodeAt(localeNode, p).kind = "object"
              THEN NodeAt(synced.node, p) = NodeAt(localeNode, p)
              ELSE p \in LeafPaths(synced.node)

\* C9 witness: the target holds an object where base holds a leaf, and the
\* output holds a branch there.
C9_Witness ==
    /\ syncPhase = "synced"
    /\ ~keepExtra
    /\ <<"a">> \in LeafPaths(baseNode)
    /\ <<"a", "a">> \in LeafPaths(localeNode)
    /\ <<"a">> \in BranchPaths(synced.node)
    /\ <<"_meta">> \in BranchPaths(baseNode)

\* C10: at every leaf path of base at which the target has a value, the
\* output holds the target's value, and the path is neither in stats.added
\* nor in stats.removed, with either value of keepExtra.
C10_TargetLeafWins ==
    syncPhase = "synced" =>
        \A p \in LeafPaths(baseNode) :
            NodeAt(localeNode, p) # Undefined =>
                /\ NodeAt(synced.node, p) = NodeAt(localeNode, p)
                /\ p \notin Range(synced.stats.added)
                /\ p \notin Range(synced.stats.removed)

\* C10 witness: the target holds a number where base holds a string, and
\* the output holds the target's number.
C10_Witness ==
    /\ syncPhase = "synced"
    /\ NodeAt(baseNode, <<"a">>).kind = "string"
    /\ NodeAt(localeNode, <<"a">>).kind = "number"
    /\ NodeAt(synced.node, <<"a">>) = NodeAt(localeNode, <<"a">>)
    /\ synced.stats.added # <<>>

(***************************************************************************)
(* Properties of syncLocaleTree, continued                                 *)
(***************************************************************************)
\* `[TODO fr-FR] ` and the like
TodoTag(code) == <<"[","T","O","D","O"," ">> \o CodeText(code) \o <<"]"," ">>

\* The number of occurrences of x in the sequence s.
Occurrences(s, x) == Cardinality({i \in 1..Len(s) : s[i] = x})

\* The paths of a tree below its root.
InnerPaths(tree) == PathsOf(tree, <<>>) \ {<<>>}

\* The call the claims C11 is about: a base mapping synchronized against {}.
EmptyTargetSynced ==
    /\ syncPhase = "synced"
    /\ ~keepExtra
    /\ isPlainObject(baseNode)
    /\ localeNode = EmptyObject

\* C11: synchronizing a base mapping against {} for fr-FR without keepExtra
\* gives base's branch shape, every leaf a text that starts with the fr-FR
\* tag, stats.added holding every leaf and branch path of base, and
\* stats.removed empty.
C11_EmptyTargetAllTagged ==
    EmptyTargetSynced =>
        /\ BranchPaths(synced.node) = BranchPaths(baseNode)
        /\ LeafPaths(synced.node) = LeafPaths(baseNode)
        /\ \A p \in LeafPaths(baseNode) :
              /\ NodeAt(synced.node, p).kind = "string"
              /\ startsWith(NodeAt(synced.node, p).text, TodoTag(syncCode))
        /\ Range(synced.stats.added) = InnerPaths(baseNode)
        /\ synced.stats.removed = <<>>

\* C11 amended: synchronizing a base mapping against {} for fr-FR without
\* keepExtra gives base's branch shape; every textual leaf outside '_meta.'
\* is the fr-FR tag followed by the source text and every other leaf is
\* base's leaf; stats.added holds every leaf and branch path of base below
\* the root exactly once; stats.removed is empty.
C11_EmptyTargetTagsTexts ==
    EmptyTargetSynced =>
        /\ BranchPaths(synced.node) = BranchPaths(baseNode)
        /\ LeafPaths(synced.node) = LeafPaths(baseNode)
        /\ \A p \in LeafPaths(baseNode) :
              LET b == NodeAt(baseNode, p)
              IN  NodeAt(synced.node, p) =
                     IF b.kind = "string" /\ ~(Len(p) >= 2 /\ p[1] = "_meta")
                     THEN StringValue(TodoTag(syncCode) \o b.text)
                     ELSE b
        /\ Range(synced.stats.added) = InnerPaths(baseNode)
        /\ \A p \in InnerPaths(baseNode) : Occurrences(synced.stats.added, p) = 1
        /\ synced.stats.removed = <<>>

\* C11 witness: a base holding a text and a number, synchronized against {}:
\* the text is tagged, the number is copied, both paths are recorded as added.
C11_Witness ==
    /\ EmptyTargetSynced
    /\ NodeAt(baseNode, <<"a">>).kind = "string"
    /\ NodeAt(baseNode, <<"_meta">>).kind = "number"
    /\ startsWith(NodeAt(synced.node, <<"a">>).text, TodoTag(syncCode))
    /\ NodeAt(synced.node, <<"_meta">>) = NodeAt(baseNode, <<"_meta">>)
    /\ Len(synced.stats.added) = 2

\* The keys the target has and base lacks at a level both hold as mappings.
ExtraPaths ==
    {Append(p, k) : p \in BranchPaths(baseNode) \cap BranchPaths(localeNode),
                    k \in Segs} \cap
    {q \in InnerPaths(localeNode) : NodeAt(baseNode, q) = Undefined}

\* C12: a key the target has and base lacks at the same level is, with
\* keepExtra, in the output with the target's subtree and stats.removed
\* stays empty; without keepExtra it is not in the output and its path is in
\* stats.removed exactly once, and nothing else is.
C12_ExtraKeys ==
    syncPhase = "synced" =>
        IF keepExtra
        THEN /\ \A q \in ExtraPaths : NodeAt(synced.node, q) = NodeAt(localeNode, q)
             /\ synced.stats.removed = <<>>
        ELSE /\ \A q \in ExtraPaths :
                   /\ NodeAt(synced.node, q) = Undefined
                   /\ Occurrences(synced.stats.removed, q) = 1
             /\ Range(synced.stats.removed) = ExtraPaths

\* C12 witness: the target has an extra branch with a leaf in it; without
\* keepExtra the branch's path alone is recorded as removed.
C12_Witness ==
    /\ syncPhase = "synced"
    /\ ~keepExtra
    /\ isPlainObject(baseNode)
    /\ NodeAt(baseNode, <<"_meta">>) = Undefined
    /\ NodeAt(localeNode, <<"_meta">>).kind = "object"
    /\ NodeAt(localeNode, <<"_meta", "a">>) # Undefined
    /\ synced.stats.removed = << <<"_meta">> >>

\* C13: where the target gives no value for a base leaf, the output holds
\* '[TODO <localeCode>] ' followed by the source text if the leaf is a text
\* whose path is not under '_meta.', and base's leaf unchanged otherwise.
C13_LeafSynthesis ==
    syncPhase = "synced" =>
        \A p \in LeafPaths(baseNode) :
            NodeAt(localeNode, p) = Undefined =>
                LET b == NodeAt(baseNode, p)
                IN  NodeAt(synced.node, p) =
                       IF b.kind = "string" /\ ~(Len(p) >= 2 /\ p[1] = "_meta")
                       THEN StringValue(<<"[","T","O","D","O"," ">> \o CodeText(syncCode)
                                        \o <<"]"," ">> \o b.text)
                       ELSE b

\* C13 witness: the target lacks a text under '_meta.', which is copied
\* untagged, and that text is the only value base has.
C13_Witness ==
    /\ syncPhase = "synced"
    /\ NodeAt(baseNode, <<"_meta", "a">>).kind = "string"
    /\ NodeAt(localeNode, <<"_meta", "a">>) = Undefined
    /\ NodeAt(synced.node, <<"_meta", "a">>) = NodeAt(baseNode, <<"_meta", "a">>)
    /\ NodeAt(localeNode, <<"_meta">>).kind = "boolean"

(***************************************************************************)
(* Properties of the placeholder codec                                     *)
(***************************************************************************)
\* C14: a text whose braces are all well-formed placeholders, encoded with
\* the tag-based encoding and decoded, is the text itself.
C14_TagRoundTrip ==
    (codecPhase = "decoded" /\ codecPath = "tag") => decoded = codecText

\* C15: a text whose braces are all well-formed placeholders, encoded with
\* the fallback token encoding and decoded, is the text itself.
C15_FallbackRoundTrip ==
    (codecPhase = "decoded" /\ codecPath = "fallback") => decoded = codecText

(***************************************************************************)
(* Properties of flattenMessages                                           *)
(***************************************************************************)
\* The dotted path of a leaf: the parts of the key names on the way to it.
RECURSIVE DottedPath(_)
DottedPath(keyPath) ==
    IF keyPath = <<>> THEN <<>>
    ELSE KeyParts(Head(keyPath)) \o DottedPath(Tail(keyPath))

\* The leaves of a mapping as pairs of dotted path and value.
LeafSet(tree) ==
    IF isPlainObject(tree)
    THEN {<<DottedPath(p), NodeAt(tree, p)>> : p \in LeafPaths(tree)}
    ELSE {}

\* The flat mapping and the rebuilt tree hold the leaves of the tree, one
\* flat key per leaf, none lost or merged.
LeavesReproduced ==
    /\ {<<p, flat[p]>> : p \in DOMAIN flat} = LeafSet(flatTree)
    /\ LeafSet(rebuilt) = LeafSet(flatTree)
    /\ isPlainObject(flatTree) =>
          /\ Cardinality(DOMAIN flat) = Cardinality(LeafPaths(flatTree))
          /\ Cardinality(LeafPaths(rebuilt)) = Cardinality(LeafPaths(flatTree))
    /\ ~isPlainObject(flatTree) => flat = EmptyFlat

\* C19: flattening a tree (no arrays, every node a mapping or a leaf) and
\* rebuilding a tree from the flat mapping reproduces the leaf set exactly,
\* one flat key per leaf; a non-mapping root flattens to the empty mapping.
C19_FlattenRebuild ==
    flatPhase = "rebuilt" => LeavesReproduced

\* No key name of the tree holds the separator '.'.
PlainKeys(tree) ==
    \A p \in PathsOf(tree, <<>>) : \A i \in 1..Len(p) : KeyParts(p[i]) = <<p[i]>>

\* C19 amended: the same for trees whose key names hold no '.'.
C19_FlattenRebuildPlainKeys ==
    (flatPhase = "rebuilt" /\ PlainKeys(flatTree)) => LeavesReproduced

\* C19 witness: a tree with a nested leaf and a top-level leaf of different
\* values has been flattened to two keys and rebuilt to the same tree.
C19_Witness ==
    /\ flatPhase = "rebuilt"
    /\ PlainKeys(flatTree)
    /\ NodeAt(flatTree, <<"a", "b">>).kind = "string"
    /\ NodeAt(flatTree, <<"b">>).kind = "number"
    /\ DOMAIN flat = {<<"a", "b">>, <<"b">>}
    /\ rebuilt = flatTree

(***************************************************************************)
(* Properties of the checker run                                           *)
(***************************************************************************)
\* The flat keys of a catalog and the value under a flat key, read off the
\* tree.
KeysOf(tree) == {entry[1] : entry \in LeafSet(tree)}
ValueOf(tree, key) == (CHOOSE entry \in LeafSet(tree) : entry[1] = key)[2]

\* The placeholder names of a text: the runs of name characters between
\* '{' and '}'.
NameSet(text) ==
    {Slice(text, i + 1, j - 1) : i \in 1..Len(text), j \in 1..Len(text)} \cap
    {name \in Seq(NameChars) :
        \E i \in 1..Len(text) :
            /\ text[i] = "{"
            /\ Len(name) > 0
            /\ i + Len(name) + 1 <= Len(text)
            /\ \A n \in 1..Len(name) : text[i + n] = name[n]
            /\ text[i + Len(name) + 1] = "}"}

\* The non-source locale files of the directory.
CheckedLocales == Range(chkLocaleFiles) \ {sourceLocaleFile}

LocaleMissesKey(L) == KeysOf(CheckSource) \ KeysOf(chkFiles[L]) # {}
LocaleHasExtraKey(L) == KeysOf(chkFiles[L]) \ KeysOf(CheckSource) # {}
LocaleMismatchesPlaceholders(L) ==
    \E key \in KeysOf(CheckSource) \cap KeysOf(chkFiles[L]) :
        /\ ValueOf(CheckSource, key).kind = "string"
        /\ ValueOf(chkFiles[L], key).kind = "string"
        /\ NameSet(ValueOf(CheckSource, key).text) # NameSet(ValueOf(chkFiles[L], key).text)

LocaleHasError(L) ==
    LocaleMissesKey(L) \/ LocaleHasExtraKey(L) \/ LocaleMismatchesPlaceholders(L)

Recorded(kind, L) ==
    \E i \in 1..Len(errors) : errors[i].kind = kind /\ errors[i].locale = L

LoopDone == chkPc \in {"report", "passed", "failed"}
RunEnded == chkPc \in {"passed", "failed"}

\* C16: after the loop, for every non-source locale a missing-keys error is
\* recorded iff a source key is absent from the locale, an extra-keys error
\* iff a locale key is absent from the source, and a placeholder error iff
\* some key that is a text in both has different sets of placeholder names;
\* so every locale is checked whatever the errors of the locales before it.
C16_LocaleErrors ==
    LoopDone =>
        \A L \in CheckedLocales :
            /\ Recorded("missing", L) <=> LocaleMissesKey(L)
            /\ Recorded("extra", L) <=> LocaleHasExtraKey(L)
            /\ Recorded("placeholder", L) <=> LocaleMismatchesPlaceholders(L)

\* A missing-key, extra-key or placeholder error is recorded for the locale.
LocaleErrorRecorded(L) ==
    Recorded("missing", L) \/ Recorded("extra", L) \/ Recorded("placeholder", L)

\* C17: a run that reaches its report fails with exit code 1 iff some
\* non-source locale has a missing-key, extra-key or placeholder error, and
\* passes otherwise.
C17_FailsIffLocaleError ==
    RunEnded =>
        /\ exitCode = 1 <=> \E L \in CheckedLocales : LocaleErrorRecorded(L)
        /\ exitCode \in {0, 1}
        /\ chkPc = "passed" <=> exitCode = 0

\* A key used by a static call in the code is absent from the source catalog.
StaticKeyMissesSource == extracted.staticKeys \ KeysOf(CheckSource) # {}

\* C17 amended: a run that reaches its report fails with exit code 1 iff a
\* missing-key, extra-key or placeholder error is recorded for some
\* non-source locale or some key used by a static call is absent from the source catalog, and
\* passes with exit code 0 otherwise; a run whose source locale file is
\* absent exits with code 1 before any locale is checked.
C17_FailsIffAnyError ==
    /\ RunEnded =>
          /\ exitCode = 1 <=> \/ \E L \in CheckedLocales : LocaleErrorRecorded(L)
                              \/ StaticKeyMissesSource
          /\ exitCode \in {0, 1}
          /\ chkPc = "passed" <=> exitCode = 0
    /\ chkPc = "exit" =>
          /\ exitCode = 1
          /\ sourceLocaleFile \notin Range(chkLocaleFiles)
          /\ errors = <<>>

\* C17 witness: no locale has an error and the run fails, for a static key
\* the source catalog does not have.
C17_Witness ==
    /\ chkPc = "failed"
    /\ exitCode = 1
    /\ \A L \in CheckedLocales : ~LocaleErrorRecorded(L)
    /\ StaticKeyMissesSource

\* The source keys no pass found and the config does not ignore.
StaleKeys ==
    {key \in KeysOf(CheckSource) :
        /\ key \notin extracted.staticKeys
        /\ key \notin extracted.templateResolvedKeys
        /\ key \notin extracted.literalReferencedKeys
        /\ \A i \in 1..Len(config.ignoredUnusedKeys) : config.ignoredUnusedKeys[i] # key
        /\ \A i \in 1..Len(config.ignoredUnusedKeyPrefixes) :
              ~startsWith(KeyText(key), config.ignoredUnusedKeyPrefixes[i])}

WarnedKeys(kind) ==
    UNION {Range(warnings[i].keys) : i \in {j \in 1..Len(warnings) : warnings[j].kind = kind}}

\* C18: after the loop the stale keys are exactly the source keys found by
\* no pass and not ignored, they and the variable expressions are recorded
\* as warnings and never as errors, a variable expression is not a used
\* key, and a run with no locale error and no static key unknown to the
\* source passes with exit code 0 whatever its warnings.
C18_WarningsNeverFail ==
    LoopDone =>
        /\ WarnedKeys("stale") = StaleKeys
        /\ WarnedKeys("variable") = extracted.variableExpressions
        /\ \A i \in 1..Len(errors) :
              errors[i].kind \in {"usedButMissingInSource", "missing", "extra", "placeholder"}
        /\ usedKeySet = extracted.staticKeys \cup extracted.templateResolvedKeys
                        \cup extracted.literalReferencedKeys
        /\ (/\ RunEnded
            /\ \A L \in CheckedLocales : ~LocaleHasError(L)
            /\ ~StaticKeyMissesSource)
           => (chkPc = "passed" /\ exitCode = 0)

\* C18 witness: a run with a stale-key warning and a variable expression,
\* the expression naming a source key that stays stale, passes.
C18_Witness ==
    /\ chkPc = "passed"
    /\ exitCode = 0
    /\ <<"a">> \in WarnedKeys("stale")
    /\ <<"a">> \in WarnedKeys("variable")
    /\ Len(warnings) = 2

(***************************************************************************)
(* Properties of extractTemplateCallKeys                                   *)
(***************************************************************************)
\* The call's template has an interpolation.
HasInterpolation == \E i \in 1..Len(templateParts) : templateParts[i] \in Interpolations

\* The body with one '*' for each interpolation.
StarredBody ==
    trim(Joined([i \in 1..Len(templateParts) |->
                    IF templateParts[i] \in Interpolations THEN <<"*">>
                    ELSE templateParts[i]]))

\* key from index j on is the pattern from index i on, with a non-empty run
\* of characters other than '.' for each '*' and every other character as
\* it is.
RECURSIVE FitsFrom(_, _, _, _)
FitsFrom(pattern, i, key, j) ==
    IF i > Len(pattern) THEN j > Len(key)
    ELSE IF pattern[i] = "*"
         THEN \E n \in 1..(Len(key) - j + 1) :
                 /\ "." \notin Range(SubSeq(key, j, j + n - 1))
                 /\ FitsFrom(pattern, i + 1, key, j + n)
         ELSE /\ j <= Len(key)
              /\ key[j] = pattern[i]
              /\ FitsFrom(pattern, i + 1, key, j + 1)

\* C20: after a template call with at least one interpolation the recorded
\* pattern is the body with one '*' for each interpolation, and the
\* resolved keys are exactly the known keys that fit the pattern with every
\* literal character matched literally and every '*' matched by a non-empty
\* run of characters without '.'; nothing is added to the static keys.
C20_TemplateResolution ==
    (extractPhase = "extracted" /\ HasInterpolation) =>
        /\ collector.templatePatterns = {StarredBody}
        /\ collector.templateResolvedKeys =
              {key \in baseKeys : FitsFrom(StarredBody, 1, key, 1)}
        /\ collector.staticKeys = {}

(***************************************************************************)
(* Properties of syncLocaleTree: agreement with the checker, accounting    *)
(* of removals, idempotence                                                *)
(***************************************************************************)
SyncedFlat == flattenMessages(synced.node, <<>>, EmptyFlat)
BaseFlat == flattenMessages(baseNode, <<>>, EmptyFlat)

\* The leaves the synchronizer synthesized: base's textual leaves outside
\* the metadata branch that the target has nothing for.
SynthesizedPaths ==
    {p \in LeafPaths(baseNode) : /\ NodeAt(baseNode, p).kind = "string"
                                 /\ ~startsWithMeta(p)
                                 /\ NodeAt(localeNode, p) = Undefined}

\* No missing key, no extra key and no placeholder mismatch between the
\* flattened output and the flattened base.
CheckerAgrees ==
    /\ DOMAIN SyncedFlat = DOMAIN BaseFlat
    /\ \A p \in SynthesizedPaths :
          /\ p \in DOMAIN SyncedFlat
          /\ SyncedFlat[p].kind = "string"
          /\ startsWith(SyncedFlat[p].text, TodoTag(syncCode))
          /\ sameStringArray(collectPlaceholders(SyncedFlat[p]),
                             collectPlaceholders(BaseFlat[p]))

\* C26: after a synchronization without keepExtra the flattened output has
\* exactly the flat keys of the flattened base and every synthesized
\* '[TODO <locale>] text' leaf has the placeholders of its source text.
C26_SyncThenCheckAgree ==
    (syncPhase = "synced" /\ ~keepExtra) => CheckerAgrees

\* The target holds a mapping at a path where base holds a leaf.
ObjectOverLeaf ==
    \E p \in LeafPaths(baseNode) : NodeAt(localeNode, p) # Undefined
                                   /\ NodeAt(localeNode, p).kind = "object"

\* C26 amended: the same, for a target that holds no mapping at a path where
\* base holds a leaf.
C26_SyncThenCheckAgreeUnlessObjectTarget ==
    (syncPhase = "synced" /\ ~keepExtra /\ ~ObjectOverLeaf) => CheckerAgrees

\* C26 witness: base has a text with a placeholder and a mapping, the target
\* has an extra key and lacks the text; the output has base's flat keys and
\* the tagged text.
C26_Witness ==
    /\ syncPhase = "synced"
    /\ ~keepExtra
    /\ ~ObjectOverLeaf
    /\ <<"a">> \in SynthesizedPaths
    /\ NodeAt(localeNode, <<"_meta">>) # Undefined
    /\ NodeAt(baseNode, <<"_meta">>) = Undefined
    /\ DOMAIN SyncedFlat = {<<"a">>}
    /\ collectPlaceholders(SyncedFlat[<<"a">>]) = << <<"n">> >>

\* The path or one of its ancestors is listed in stats.removed.
RemovalRecorded(p) == \E i \in 1..Len(p) : SubSeq(p, 1, i) \in Range(synced.stats.removed)

\* Every key path of the target that is not in the output is recorded.
DroppedPathsRecorded ==
    \A p \in InnerPaths(localeNode) :
        NodeAt(synced.node, p) = Undefined => RemovalRecorded(p)

\* C27: after a synchronization without keepExtra every key path of the
\* target that is not in the output has itself or an ancestor in
\* stats.removed, and every leaf of the target is in the output with its
\* value or recorded as removed: no target content is dropped without a
\* record.
C27_DropsRecorded ==
    (syncPhase = "synced" /\ ~keepExtra) =>
        /\ DroppedPathsRecorded
        /\ \A p \in LeafPaths(localeNode) \ {<<>>} :
              \/ NodeAt(synced.node, p) = NodeAt(localeNode, p)
              \/ RemovalRecorded(p)

\* C27 amended: every key path of the target that is not in the output has
\* itself or an ancestor in stats.removed, and every leaf of the target is
\* in the output with its value or recorded as removed, except a leaf at a
\* path where base holds a mapping: that leaf is replaced by the
\* synchronized mapping and is not recorded.
C27_DropsRecordedUnlessLeafOverBranch ==
    (syncPhase = "synced" /\ ~keepExtra) =>
        /\ DroppedPathsRecorded
        /\ \A p \in LeafPaths(localeNode) \ {<<>>} :
              IF NodeAt(baseNode, p) # Undefined /\ isPlainObject(NodeAt(baseNode, p))
              THEN /\ isPlainObject(NodeAt(synced.node, p))
                   /\ ~RemovalRecorded(p)
              ELSE \/ NodeAt(synced.node, p) = NodeAt(localeNode, p)
                   \/ RemovalRecorded(p)

\* C27 witness: the target has a mapping with a leaf that base lacks; the
\* mapping is pruned and recorded, the leaf below it by its ancestor only.
C27_Witness ==
    /\ syncPhase = "synced"
    /\ ~keepExtra
    /\ isPlainObject(baseNode)
    /\ NodeAt(baseNode, <<"_meta">>) = Undefined
    /\ <<"_meta", "a">> \in LeafPaths(localeNode)
    /\ NodeAt(synced.node, <<"_meta", "a">>) = Undefined
    /\ synced.stats.removed = << <<"_meta">> >>

\* C28: synchronizing the output of a synchronization against the same base,
\* with the same locale code and keepExtra and a fresh stats, returns a tree
\* equal to that output and leaves added and removed empty.
C28_Idempotent ==
    syncPhase = "resynced" =>
        /\ resynced.node = synced.node
        /\ resynced.stats = EmptyStats

\* C28 witness: the first synchronization added a tagged text and, with
\* keepExtra, kept a key base lacks; the second one returned the same tree.
C28_Witness ==
    /\ syncPhase = "resynced"
    /\ keepExtra
    /\ synced.stats.added # <<>>
    /\ \E p \in InnerPaths(localeNode) :
          NodeAt(baseNode, p) = Undefined /\ NodeAt(synced.node, p) # Undefined
    /\ \E p \in LeafPaths(synced.node) :
          /\ NodeAt(synced.node, p).kind = "string"
          /\ startsWith(NodeAt(synced.node, p).text, TodoTag(syncCode))
    /\ resynced.node = synced.node

(***************************************************************************)
(* Properties of the translate run: selection, batches, frame              *)
(***************************************************************************)
\* The value a catalog holds under a flat key: a leaf at the key's path,
\* Undefined if there is none or a mapping is there.
FlatValue(tree, key) ==
    LET node == NodeAt(tree, key)
    IN  IF node # Undefined /\ node.kind = "object" THEN Undefined ELSE node

\* The text starts with '[TODO ', some characters other than ']', and ']'.
CarriesTodoPrefix(text) ==
    /\ Len(text) >= 8
    /\ SubSeq(text, 1, 6) = <<"[","T","O","D","O"," ">>
    /\ text[7] # "]"
    /\ \E i \in 8..Len(text) : text[i] = "]"

\* The source keys whose value is a text and whose path is not under '_meta.'
SourceTextKeys ==
    {key \in LeafPaths(SourceCatalog) :
        NodeAt(SourceCatalog, key).kind = "string" /\ key[1] # "_meta"}

\* The source keys the claim names for a locale file's content.
ToSelect(locale, rewrite) ==
    {key \in SourceTextKeys :
        \/ rewrite
        \/ FlatValue(locale, key) = Undefined
        \/ /\ FlatValue(locale, key).kind = "string"
           /\ CarriesTodoPrefix(FlatValue(locale, key).text)}

\* A locale of the loop is being translated.
InLocale == pc \in {"fetch", "await", "sleep", "returned", "finish"}

\* The position of a key in the sorted source keys.
KeyRank(key) == Cardinality({k \in SourceTextKeys : PathLess(k, key)})

RECURSIVE SubmittedTexts(_)
SubmittedTexts(j) ==
    IF j > Len(exchanges) THEN <<>> ELSE exchanges[j].texts \o SubmittedTexts(j + 1)

\* C24: when the last batch of a locale is answered, the answered requests
\* are ceil(n / batchSize) for n selected keys, each carries at most
\* batchSize texts, and their texts in issue order are the source texts of
\* the selected keys in order, each once; a call without a failed response
\* issues one request; and while a call runs, every request but the one in
\* flight has been answered and handled: no two are in flight together.
C24_ConsecutiveBatches ==
    /\ pc = "finish" =>
          LET n == Len(keysToTranslate)
          IN  /\ Len(exchanges) = (n + batchSize - 1) \div batchSize
              /\ \A j \in 1..Len(exchanges) :
                    Len(exchanges[j].texts) >= 1 /\ Len(exchanges[j].texts) <= batchSize
              /\ SubmittedTexts(1) =
                    [i \in 1..n |-> NodeAt(SourceCatalog, keysToTranslate[i]).text]
    /\ (pc = "returned" /\ callRetryable = 0 /\ callParseFailures = 0) => callRequests = 1
    /\ pc = "await" => callRequests = callRetryable + callParseFailures + 1
    /\ pc \in {"fetch", "sleep", "returned"} =>
          callRequests = callRetryable + callParseFailures
                         + (IF pc = "returned" THEN 1 ELSE 0)

\* C24 witness: two keys were selected with batch size 1, and two requests
\* of one text each were answered without any failure in the second call.
C24_Witness ==
    /\ pc = "finish"
    /\ batchSize = 1
    /\ Len(keysToTranslate) = 2
    /\ Len(exchanges) = 2
    /\ exchanges[1].texts = <<HiN>>
    /\ exchanges[2].texts = <<AandB>>

\* The decoded translations of the answered requests, in issue order.
RECURSIVE ReturnedTexts(_)
ReturnedTexts(j) ==
    IF j > Len(exchanges) THEN <<>>
    ELSE [i \in 1..Len(exchanges[j].translations) |->
             decodePlaceholders(exchanges[j].translations[i])]
         \o ReturnedTexts(j + 1)

\* The selected keys whose translation came back with some visible text.
StoredKeys ==
    {keysToTranslate[i] : i \in {n \in 1..Len(keysToTranslate) : ~IsBlank(ReturnedTexts(1)[n])}}
BlankKeys ==
    {keysToTranslate[i] : i \in {n \in 1..Len(keysToTranslate) : IsBlank(ReturnedTexts(1)[n])}}

IsProperPrefix(p, q) == Len(p) < Len(q) /\ SubSeq(q, 1, Len(p)) = p

\* The flat keys of the locale that were not selected.
UnselectedKeys == (LeafPaths(currentLocale) \ {<<>>}) \ Range(keysToTranslate)

\* C29: when the last batch of a locale is stored, every flat key of the
\* locale that was not selected has in the tree to write the value it had
\* before, also when it is a proper prefix of a selected key.
C29_OnlySelectedChange ==
    pc = "finish" =>
        \A k \in UnselectedKeys : FlatValue(updatedLocale, k) = FlatValue(currentLocale, k)

\* C29 amended: every flat key of the locale that was not selected has in
\* the tree to write the value it had before, except a key that is a proper
\* prefix of a stored selected key or lies below one: such a key is gone,
\* its leaf replaced by a mapping or the mapping above it by the text.
C29_OnlySelectedChangeUnlessNested ==
    pc = "finish" =>
        \A k \in UnselectedKeys :
            IF \E s \in StoredKeys : IsProperPrefix(k, s) \/ IsProperPrefix(s, k)
            THEN FlatValue(updatedLocale, k) = Undefined
            ELSE FlatValue(updatedLocale, k) = FlatValue(currentLocale, k)

\* C29 witness: the locale holds the unselected keys _meta.a and b.b next to
\* two selected keys; both selected keys got a text and the others kept
\* theirs.
C29_Witness ==
    /\ pc = "finish"
    /\ {<<"_meta", "a">>, <<"b", "b">>} \subseteq UnselectedKeys
    /\ StoredKeys = {<<"a">>, <<"b", "a">>}
    /\ FlatValue(updatedLocale, <<"b", "b">>) = NumberValue(<<"3">>)
    /\ FlatValue(updatedLocale, <<"a">>) # FlatValue(currentLocale, <<"a">>)

\* C30: a selected key whose translation came back empty or blank keeps the
\* value it had before the run and is not counted as changed, and, when
\* it was absent or marked [TODO], is selected again by the next run
\* without --rewrite-existing; and a locale
\* none of whose selected keys changed is not written, in write mode too.
C30_BlankNotStored ==
    /\ pc = "finish" =>
          \A k \in BlankKeys :
              /\ getValueAtPath(updatedLocale, k) = getValueAtPath(currentLocale, k)
              /\ k \notin Range(ChangedKeys(currentLocale, updatedLocale, keysToTranslate))
              /\ (k \in ToSelect(currentLocale, FALSE) => k \in ToSelect(updatedLocale, FALSE))
    /\ \A L \in DOMAIN writeLog :
          \E k \in SourceTextKeys :
              getValueAtPath(writeLog[L], k) # getValueAtPath(initialFiles[L], k)

(***************************************************************************)
(* Properties of the tools' runs: effects of a sync call, order of the     *)
(* locale files, writes                                                    *)
(***************************************************************************)
\* A stats accumulator that already holds paths when a call starts.
PriorStats == [added |-> << <<"b">> >>, removed |-> << <<"a">>, <<"a", "a">> >>]

StartsWith(paths, prior) ==
    Len(prior) <= Len(paths) /\ SubSeq(paths, 1, Len(prior)) = prior

\* main of i18n-sync.mjs is about to read and synchronize a locale file.
AtSyncCall ==
    /\ pc = "syncLocale"
    /\ localeIndex <= Len(localeFiles)
    /\ localeFiles[localeIndex] # sourceLocaleFile

\* C21: a call of syncLocaleTree from main leaves the source catalog and
\* the target tree it was given as they were, and only appends paths to
\* the stats it was given; the source catalog that was loaded before the
\* loop is the one every locale is synchronized with.
C21_SyncLeavesInputsAlone ==
    [][AtSyncCall =>
          LET localeFile == localeFiles[localeIndex]
              continued == syncLocaleTree(sourceLocale, files[localeFile],
                                          CodeText(localeFile), <<>>, PriorStats, keepExtra)
          IN  /\ sourceLocale' = sourceLocale
              /\ sourceLocale = initialFiles[sourceLocaleFile]
              /\ currentLocale' = files[localeFile]
              /\ files' = files
              /\ continued.node = synced'.node
              /\ continued.stats.added = PriorStats.added \o synced'.stats.added
              /\ continued.stats.removed = PriorStats.removed \o synced'.stats.removed]_vars

\* C21 witness: the second target locale was synchronized with the source
\* catalog loaded before the first, paths were recorded in stats, and the
\* first locale's file was written in between.
C21_Witness ==
    /\ pc = "syncWrite"
    /\ localeFiles[localeIndex] = "fr-FR"
    /\ "de-DE" \in DOMAIN writeLog
    /\ Len(synced.stats.removed) > 0
    /\ sourceLocale = SourceCatalog
    /\ currentLocale = initialFiles["fr-FR"]

\* A step writes a locale file.
FileWritten == DOMAIN writeLog' # DOMAIN writeLog \/ files' # files

\* C22: a step of the sync tool or of the translate tool writes a locale
\* file only in write mode, only the file of the locale at hand, which is
\* not the source's, and only when a change was computed for it: paths in
\* stats.added or stats.removed, or a selected key whose value differs
\* after the translation.
C22_WritesOnlyComputedChanges ==
    [][FileWritten =>
          /\ writeMode
          /\ \E localeFile \in Range(localeFiles) \ {sourceLocaleFile} :
                /\ DOMAIN writeLog' = DOMAIN writeLog \cup {localeFile}
                /\ \A other \in Range(localeFiles) \ {localeFile} :
                      files'[other] = files[other]
                /\ IF pc = "syncWrite"
                   THEN /\ localeFile = localeFiles[localeIndex]
                        /\ Len(synced.stats.added) > 0 \/ Len(synced.stats.removed) > 0
                   ELSE /\ pc = "finish"
                        /\ localeFile = localeCode
                        /\ \E key \in Range(keysToTranslate) :
                              getValueAtPath(updatedLocale, key)
                                  # getValueAtPath(currentLocale, key)]_vars

Ascending(names) ==
    \A i \in 1..Len(names) : \A j \in (i + 1)..Len(names) :
        NameLess(FileName(names[i]), FileName(names[j]))

ListingsAscending == Ascending(localeFiles) /\ Ascending(targetLocaleFiles)

SyncToolRuns == pc \in {"syncMain", "syncLocale", "syncWrite", "syncDone"}

\* The files the loop of the running tool walks, and those it has reached.
LoopFiles == IF SyncToolRuns THEN localeFiles ELSE targetLocaleFiles
Reached == {LoopFiles[i] : i \in {n \in 1..Len(LoopFiles) : n <= localeIndex}}

AtHand == {LoopFiles[i] : i \in {n \in 1..Len(LoopFiles) : n = localeIndex}}

\* The non-source locales a run has read, sent a request for, or written.
Touched == (reads \ {sourceLocaleFile}) \cup requested \cup DOMAIN writeLog

\* The locales of the records in the checker's error list, in order.
ErrorLocales == [i \in 1..Len(errors) |-> errors[i].locale]

=============================================================================
